---- MODULE Spec2Model ----
(***************************************************************************)
(* A model of gmail-cleaner: the Categorization Driver                     *)
(* (gmail_resume_scanner.py), the mailbox collaborator (GmailService),     *)
(* the model-assisted analyzers (GeminiAnalyzer, OpenAIAnalyzer) and the   *)
(* Keyword Matcher (PDFProcessor, ResumeAnalyzer), and the deterministic   *)
(* parser and evaluator (EmailAnalyzer).                                   *)
(*                                                                         *)
(* Python's None is modelled by NoneId (label ids) and NoLabel (labels).   *)
(* A document of the Keyword Matcher is a sequence of characters; a        *)
(* prompt, a subject, a body and a model response are sequences of tokens  *)
(* (words, quotes, commas, brackets); a label name of the Driver is a      *)
(* string of the finite set Names, lowercased by the table Lower.          *)
(***************************************************************************)
EXTENDS Integers, Sequences, FiniteSets, TLC

\* ------------------------------------------------------------------ bounds
\* The mailbox holds at most MaxMsgs messages that match the PDF query.
MaxMsgs == 2
\* MAX_EMAILS_TO_PROCESS ranges over 0 (None: no cap) .. MaxCap.
MaxCap == 1
\* A function called on its own: the mailbox holds at most MaxStore labels,
MaxStore == 1
\* a rule list at most MaxRules rules,
MaxRules == 2
\* a document at most MaxText characters, a keyword list at most MaxKeywords
\* keywords of at most MaxWord characters.
MaxText == 3
MaxKeywords == 2
MaxWord == 2
\* a response of the rule-producing model at most MaxTokens tokens,
MaxTokens == 5
\* a condition list at most MaxConds conditions, a list of keywords to expand
\* at most MaxExpand keywords.
MaxConds == 2
MaxExpand == 2
\* The .pdf parts of a message.
MaxPdfs == 2
\* The top-level parts of a message payload.
MaxParts == 2

\* ------------------------------------------------------- program constants
\* GeminiAnalyzer.categorize_prompt: max_retries, retry_delay.
max_retries == 3
retry_delay == 2
\* GeminiAnalyzer.categorize_email: max_retries, retry_delay.
email_max_retries == 3
email_retry_delay == 1
\* scan_resumes_with_gemini: time.sleep(4) after each message.
inter_call_delay == 4

NoneId == 0
NoLabel == "<None>"
NO_MATCH == "NO_MATCH"

\* config.py: DELETE_LABEL_NAME; EmailAnalyzer.parse_prompt: the default actions.
DELETE_LABEL_NAME == "To Be Deleted"
DefaultPassLabel == "To be Reviewed"
DefaultFailLabel == "To be Deleted"

\* The label names of the model: the parser's defaults and the configured
\* delete label, which differs from the default fail label by case only.
Names == {"To be Deleted", "To Be Deleted", "To be Reviewed"}

\* str.lower() on the names of the model.
Lower(n) ==
  CASE n = "To be Deleted" -> "to be deleted"
    [] n = "To Be Deleted" -> "to be deleted"
    [] n = "To be Reviewed" -> "to be reviewed"
    [] OTHER -> n

\* The outcome of one request to the mailbox: it succeeds, raises HttpError
\* (which GmailService catches), or raises another exception (a transport
\* error), which GmailService lets through.
Outcomes == {"ok", "http_error", "error"}

\* --------------------------------------------------------- pure helpers
RECURSIVE SumOver(_, _)
SumOver(f, S) ==
  IF S = {} THEN 0
  ELSE LET x == CHOOSE y \in S : TRUE IN f[x] + SumOver(f, S \ {x})

RECURSIVE Pow2(_)
Pow2(k) == IF k = 0 THEN 1 ELSE 2 * Pow2(k - 1)

SeqsUpTo(S, n) == UNION {[1..k -> S] : k \in 0..n}

Prefix(s, n) == [i \in 1..(IF n < Len(s) THEN n ELSE Len(s)) |-> s[i]]


\* ------------------------------------------------------------ data model
\* A raw message, by what the evaluators derive from it: whether the subject
\* is non-empty, whether the extracted body is non-empty, whether a top-level
\* part is a .pdf file.  The fetched list holds the messages' ids (every
\* Gmail message resource carries its 'id'); a loop reads the content of a
\* message when it comes to it.
MsgKinds ==
  { [subject |-> TRUE,  body |-> TRUE,  pdf |-> TRUE],
    [subject |-> FALSE, body |-> FALSE, pdf |-> TRUE],
    [subject |-> TRUE,  body |-> FALSE, pdf |-> FALSE] }

\* The operators of a condition group that need no text operand.
Ops == {"absent", "Exists", "Does not Exist"}
RuleLabels == {"To be Deleted", "To be Reviewed"}
Rules == [Subject : Ops, Body : Ops, PDF : Ops, Label : RuleLabels]

RuleNoSubjectNoBody ==
  [Subject |-> "Does not Exist", Body |-> "Does not Exist", PDF |-> "absent",
   Label |-> "To be Deleted"]
RuleSubjectAndPdf ==
  [Subject |-> "Exists", Body |-> "absent", PDF |-> "Exists",
   Label |-> "To be Reviewed"]

\* The rule lists the model may produce in a scanning run.
DriverRuleLists == { <<>>, <<RuleNoSubjectNoBody>> }

\* The error text of an exception of the model call, by what the code reads
\* of it: whether it contains "429", whether it contains "quota".
ErrorTexts == [has429 : BOOLEAN, quota : BOOLEAN]

\* One call of the model for rule production: a response whose text parses
\* to a rule list, a response that does not parse, or an exception.
PromptReplies ==
  [type : {"rules"}, rules : DriverRuleLists] \cup {[type |-> "garbage"]}
    \cup [type : {"error"}, err : ErrorTexts]

\* One call of the model for classification: the stripped response text, or
\* an exception.  The text is whatever the model answers.
Answers == Names \cup {NO_MATCH, ""}
EmailReplies == [type : {"text"}, text : Answers] \cup [type : {"error"}, err : ErrorTexts]

\* The trigger phrases of the deterministic parser that need no text operand.
Triggers == {"subject exists", "body exists", "has pdf", "skilled in"}

ZeroCounts == [n \in Names |-> 0]

\* ------------------------------------------------------------------ state
VARIABLES
  pc,             \* where the program is
  caller,         \* "main", or "direct": a client calling a scan method itself
  config,         \* [gemini, openai: analyzer configured; cap: MAX_EMAILS_TO_PROCESS]
  service,        \* GmailService.service: "unset", "none" (None) or "ok"
  report,         \* what the program has printed or logged as an error
  pipeline,       \* the scan method running, "none" before
  rules,          \* the rule list of the run (model-assisted)
  parsed,         \* parse_prompt's result (deterministic)
  target_id,      \* the id of the label the deterministic and keyword loops apply
  ruleCalls,      \* model calls made by rule production
  sleeps,         \* the time.sleep durations of rule production, in order
  parser_calls,   \* how often the rule parser of the pipeline has been asked
  mailbox,        \* how many messages of the mailbox match the PDF query
  messages,       \* the fetched list (message ids), after the cap
  idx,            \* messages processed so far by the loop
  scanned_count,
  label_counts,   \* label -> count (fail_count and labeled_count: at their label)
  labelStore,     \* the mailbox's labels, in creation order; a label's id is its index
  applied,        \* message -> the label ids the mailbox has put on it
  listReqs,       \* message-list requests to the mailbox
  createReqs,     \* label-create requests
  applyReqs,      \* message -> label-apply requests for it
  label,          \* what evaluation returned for the message just processed
  failed,         \* the messages whose processing raised
  email_calls,    \* model calls made for the message just processed
  call_gaps,      \* before each of them but the run's first: seconds slept since the call before
  pause,          \* seconds the loop slept at the end of the last pass
  seen,           \* what the deterministic and keyword loops read of the message just processed
  result,         \* the summary returned by the scan method
  raised,         \* an exception left the scan method
  args,           \* the arguments of a function called on its own
  ret             \* what that call returned

vars == << pc, caller, config, service, report, pipeline, rules, parsed, target_id,
           ruleCalls, sleeps, messages, idx, scanned_count, label_counts,
           labelStore, applied, listReqs, createReqs, applyReqs,
           mailbox, label, failed, result, raised, args, ret,
           parser_calls, email_calls, call_gaps, pause, seen >>

mailVars == << mailbox, labelStore, applied, listReqs, createReqs, applyReqs >>
loopVars == << messages, idx, scanned_count, label_counts, label, failed,
              email_calls, call_gaps, pause, seen >>
ruleVars == << rules, parsed, target_id, ruleCalls, sleeps, parser_calls >>
unitVars == << args, ret >>

NoResult == [scanned |-> -1, counts |-> ZeroCounts]

\* What a loop has read of a message: its content, how many of its .pdf parts
\* the loop has entered, whether a PDF text was extracted, and the verdict on it.
Seen(m, examined, pdf_text, qualified) ==
  [message |-> m, examined |-> examined, pdf_text |-> pdf_text, qualified |-> qualified]
NoMessage == [subject |-> FALSE, body |-> FALSE, pdf |-> FALSE]
NotSeen == Seen(NoMessage, 0, FALSE, FALSE)
ZeroResult == [scanned |-> 0, counts |-> ZeroCounts]

\* The mailbox's labels when the program starts: none, or the delete label
\* of an earlier keyword run.
InitialStores == {<<>>, <<DELETE_LABEL_NAME>>}

\* The scanner before anything has run: nothing printed, fetched, counted or
\* requested.
Idle ==
  /\ service = "unset"
  /\ report = {}
  /\ pipeline = "none"
  /\ rules = <<>>
  /\ parsed = [conditions |-> <<>>, actions |-> [pass_label |-> NoLabel, fail_label |-> NoLabel]]
  /\ target_id = NoneId
  /\ ruleCalls = 0
  /\ sleeps = <<>>
  /\ messages = <<>>
  /\ idx = 0
  /\ scanned_count = 0
  /\ label_counts = ZeroCounts
  /\ applied = <<>>
  /\ listReqs = 0
  /\ createReqs = 0
  /\ applyReqs = <<>>
  /\ label = NoLabel
  /\ failed = {}
  /\ result = NoResult
  /\ raised = FALSE
  /\ parser_calls = 0
  /\ email_calls = 0
  /\ call_gaps = <<>>
  /\ pause = 0
  /\ seen = NotSeen

NoArgs == <<>>
NoRet == <<>>

Init ==
  /\ pc = "main"
  /\ caller \in {"main", "direct"}
  /\ config \in [gemini : BOOLEAN, openai : BOOLEAN, cap : 0..MaxCap]
  /\ mailbox \in 0..MaxMsgs
  /\ labelStore \in InitialStores
  /\ args = NoArgs
  /\ ret = NoRet
  /\ Idle


\* --------------------------------------------------------- GmailService
\* setup_gmail_api, by the files it finds and the call that raises, if any:
\* "ok" (service built), "none" (credentials.json missing: it returns with
\* service None), "raises" (the exception is logged and re-raised).
SetupEnvs == [token : {"absent", "valid", "expired", "invalid"},
              credentials_json : BOOLEAN,
              fails : {"nothing", "load", "refresh", "flow", "build"}]

setup_gmail_api(env) ==
  IF env.token # "absent" /\ env.fails = "load" THEN "raises"
  ELSE IF env.token = "valid"
    THEN (IF env.fails = "build" THEN "raises" ELSE "ok")
  ELSE IF env.token = "expired"
    THEN (IF env.fails \in {"refresh", "build"} THEN "raises" ELSE "ok")
  ELSE IF ~env.credentials_json THEN "none"
  ELSE IF env.fails \in {"flow", "build"} THEN "raises" ELSE "ok"

\* An availability check that never says no.
always_available(svc) == TRUE

is_service_available(svc) == svc # "none" /\ svc # "unset"

\* A search for the label that compares the names as they are.
FindLabelExact(store, label_name) ==
  IF \E i \in DOMAIN store : store[i] = label_name
    THEN CHOOSE i \in DOMAIN store :
           /\ store[i] = label_name
           /\ \A j \in DOMAIN store : store[j] = label_name => i <= j
    ELSE NoneId

\* The index of the first label of the store whose name equals the given one
\* ignoring case, NoneId when there is none.
FindLabel(store, label_name) ==
  IF \E i \in DOMAIN store : Lower(store[i]) = Lower(label_name)
    THEN CHOOSE i \in DOMAIN store :
           /\ Lower(store[i]) = Lower(label_name)
           /\ \A j \in DOMAIN store : Lower(store[j]) = Lower(label_name) => i <= j
    ELSE NoneId

\* create_label_if_not_exists(label_name), given the outcome of its label-list
\* request (lo) and of its label-create request (co), should it make one.
\* id is the returned label id (NoneId for None); lists and creates count the
\* requests it made.
create_label_if_not_exists(store, label_name, lo, co) ==
  IF lo = "http_error"
    THEN [id |-> NoneId, store |-> store, lists |-> 1, creates |-> 0, raised |-> FALSE]
  ELSE IF lo = "error"
    THEN [id |-> NoneId, store |-> store, lists |-> 1, creates |-> 0, raised |-> TRUE]
  ELSE IF FindLabel(store, label_name) # NoneId
    THEN [id |-> FindLabel(store, label_name), store |-> store, lists |-> 1,
          creates |-> 0, raised |-> FALSE]
  ELSE IF co = "http_error"
    THEN [id |-> NoneId, store |-> store, lists |-> 1, creates |-> 1, raised |-> FALSE]
  ELSE IF co = "error"
    THEN [id |-> NoneId, store |-> store, lists |-> 1, creates |-> 1, raised |-> TRUE]
  ELSE [id |-> Len(store) + 1, store |-> Append(store, label_name), lists |-> 1,
        creates |-> 1, raised |-> FALSE]

\* A modify request that puts the label with the next id on the message.
add_next_label_to_message(labels, label_id, ao) ==
  [labels |-> IF ao = "ok" THEN labels \cup {label_id + 1} ELSE labels,
   raised |-> ao = "error"]

\* add_label_to_message, given the outcome of its modify request: the labels
\* of the message afterwards, and whether an exception leaves the method
\* (HttpError is caught and logged there).
add_label_to_message(labels, label_id, ao) ==
  [labels |-> IF ao = "ok" THEN labels \cup {label_id} ELSE labels,
   raised |-> ao = "error"]

\* ------------------------------------------------------- model analyzers
\* A test that knows the status code only.
IsRateLimit429(err) == err.has429

\* "429" in error_str or "quota" in error_str.lower()
IsRateLimit(err) == err.has429 \/ err.quota

\* retry_delay * (2 ** attempt)
Backoff(delay, k) == delay * Pow2(k)

\* The parse of a response text of rule production: the rule list, or [].
ParseRules(reply) == IF reply.type = "rules" THEN reply.rules ELSE <<>>

\* GeminiAnalyzer.categorize_prompt from attempt k on, given the replies of
\* its model calls: the returned rule list, the number of model calls made
\* and the time.sleep durations, in order.
RECURSIVE categorize_prompt_from(_, _)
categorize_prompt_from(replies, k) ==
  IF k >= max_retries THEN [rules |-> <<>>, calls |-> 0, sleeps |-> <<>>]
  ELSE LET r == replies[k + 1] IN
    IF r.type # "error"
      THEN [rules |-> ParseRules(r), calls |-> 1, sleeps |-> <<>>]
    ELSE IF IsRateLimit(r.err) /\ k < max_retries - 1
      THEN LET rest == categorize_prompt_from(replies, k + 1) IN
           [rules |-> rest.rules, calls |-> rest.calls + 1,
            sleeps |-> <<Backoff(retry_delay, k)>> \o rest.sleeps]
    ELSE [rules |-> <<>>, calls |-> 1, sleeps |-> <<>>]

categorize_prompt(replies) == categorize_prompt_from(replies, 0)

\* OpenAIAnalyzer.categorize_prompt: one model call; any exception, or a
\* response that does not parse, gives [].
openai_categorize_prompt(reply) ==
  [rules |-> ParseRules(reply), calls |-> 1, sleeps |-> <<>>]

\* GeminiAnalyzer.categorize_email from attempt k on, given the replies of
\* its model calls: the returned label (NoLabel for None), the number of
\* model calls made, the seconds slept and the time.sleep durations in order.
RECURSIVE categorize_email_from(_, _)
categorize_email_from(replies, k) ==
  IF k >= email_max_retries
    THEN [label |-> NoLabel, calls |-> 0, slept |-> 0, sleeps |-> <<>>]
  ELSE LET r == replies[k + 1] IN
    IF r.type = "text"
      THEN [label |-> IF r.text = NO_MATCH THEN NoLabel ELSE r.text,
            calls |-> 1, slept |-> 0, sleeps |-> <<>>]
    ELSE IF IsRateLimit(r.err) /\ k < email_max_retries - 1
      THEN LET rest == categorize_email_from(replies, k + 1) IN
           [label |-> rest.label, calls |-> rest.calls + 1,
            slept |-> rest.slept + Backoff(email_retry_delay, k),
            sleeps |-> <<Backoff(email_retry_delay, k)>> \o rest.sleeps]
    ELSE [label |-> NoLabel, calls |-> 1, slept |-> 0, sleeps |-> <<>>]

categorize_email(replies) == categorize_email_from(replies, 0)

\* OpenAIAnalyzer.categorize_email: one model call, any exception gives None.
openai_categorize_email(reply) ==
  IF reply.type = "text"
    THEN [label |-> IF reply.text = NO_MATCH THEN NoLabel ELSE reply.text,
          calls |-> 1, slept |-> 0, sleeps |-> <<>>]
    ELSE [label |-> NoLabel, calls |-> 1, slept |-> 0, sleeps |-> <<>>]

\* A test for None in place of the truth value: "" passes it.
TruthyNotNone(v) == v # NoLabel

\* Python's truth value of the returned label: None and "" are false.
Truthy(v) == v # NoLabel /\ v # ""


\* -------------------------------------------------------- rule evaluation
\* evaluate(components, rule): the conjunction over the condition groups
\* present on the rule; Exists holds of a non-empty component.
GroupHolds(op, present) ==
  CASE op = "absent" -> TRUE
    [] op = "Exists" -> present
    [] op = "Does not Exist" -> ~present

evaluate(m, rule) ==
  /\ GroupHolds(rule.Subject, m.subject)
  /\ GroupHolds(rule.Body, m.body)
  /\ GroupHolds(rule.PDF, m.pdf)

\* -------------------------------------------------------- Keyword Matcher
Alphabet == {"a", "b"}
Texts == SeqsUpTo(Alphabet, MaxText)
Words == SeqsUpTo(Alphabet, MaxWord) \ {<<>>}

\* Python's "keyword in pdf_text" on strings.
IsSubstring(w, t) ==
  \E o \in 0..(Len(t) - Len(w)) : \A i \in 1..Len(w) : t[o + i] = w[i]

\* A fraction num/den, den > 0; 0.0 is 0/1.
Ratio(n, d) == [num |-> n, den |-> d]
Geq(a, b) == a.num * b.den >= b.num * a.den

\* config.py: MATCH_THRESHOLD = 0.5
MATCH_THRESHOLD == Ratio(1, 2)

\* A count that stops at the first keyword found.
CountFirstMatch(pdf_text, keywords) ==
  IF \E i \in DOMAIN keywords : IsSubstring(keywords[i], pdf_text) THEN 1 ELSE 0

\* The loop of calculate_match_percentage: the keywords found in the text.
RECURSIVE CountMatches(_, _)
CountMatches(pdf_text, keywords) ==
  IF keywords = <<>> THEN 0
  ELSE (IF IsSubstring(Head(keywords), pdf_text) THEN 1 ELSE 0)
         + CountMatches(pdf_text, Tail(keywords))

\* PDFProcessor.calculate_match_percentage
calculate_match_percentage(pdf_text, keywords) ==
  IF keywords = <<>> THEN Ratio(0, 1)
  ELSE Ratio(CountMatches(pdf_text, keywords), Len(keywords))

\* ResumeAnalyzer.check_resume_qualification, from the expanded keywords on.
check_resume_qualification(pdf_text, expanded_keywords) ==
  LET match_percentage == calculate_match_percentage(pdf_text, expanded_keywords)
  IN [match_percentage |-> match_percentage,
      qualified |-> Geq(match_percentage, MATCH_THRESHOLD)]

\* ---------------------------------------------------- deterministic parser
\* EmailAnalyzer.parse_prompt on a prompt holding the trigger phrases p and no
\* label phrase: at most one condition per category, the default actions.
parse_prompt(p) ==
  [conditions |->
     (IF "subject exists" \in p THEN <<"subject_exists">> ELSE <<>>)
     \o (IF "body exists" \in p THEN <<"body_exists">> ELSE <<>>)
     \o (IF "has pdf" \in p THEN <<"pdf_exists">> ELSE <<>>)
     \o (IF "skilled in" \in p THEN <<"resume_skill">> ELSE <<>>),
   actions |-> [pass_label |-> DefaultPassLabel, fail_label |-> DefaultFailLabel]]

check_single_condition(m, condition_type) ==
  CASE condition_type = "subject_exists" -> m.subject
    [] condition_type = "body_exists" -> m.body
    [] condition_type = "pdf_exists" -> m.pdf
    [] condition_type = "resume_skill" -> TRUE
    [] OTHER -> FALSE

\* A deterministic evaluation that is content with one condition holding.
check_any_condition(m, conds) ==
  \E k \in DOMAIN conds : check_single_condition(m, conds[k])

check_email_conditions(m, conds) ==
  \A k \in DOMAIN conds : check_single_condition(m, conds[k])

\* ----------------------------------------- deterministic parser, on text
\* A text is a sequence of tokens: words, the single quote and the comma.
\* A word of the model holds letters only and occurs in no other word, so
\* that Python's "in" and re.search on the characters agree with the same
\* test on the tokens; words are separated by single spaces.
Quote == "'"
Comma == ","
IsWord(t) == t \notin {Quote, Comma}

\* The regex fragments the parser writes into a body pattern.
LetterRun == "[a-zA-Z]+"
OptionalWord == "[a-zA-Z]*"
Whitespace == "\\s+"

\* str.lower() on a token.
lower(t) ==
  CASE t = "Mark" -> "mark"
    [] t = "Label" -> "label"
    [] t = "To" -> "to"
    [] t = "Deleted" -> "deleted"
    [] t = "Reviewed" -> "reviewed"
    [] t = "Important" -> "important"
    [] t = "Keep" -> "keep"
    [] t = "Trash" -> "trash"
    [] t = "Java" -> "java"
    [] t = "Python" -> "python"
    [] t = "Developer" -> "developer"
    [] t = "Needed" -> "needed"
    [] t = "I" -> "i"
    [] t = "XYZ" -> "xyz"
    [] t = "ABC" -> "abc"
    [] t = "John" -> "john"
    [] t = "Chicago" -> "chicago"
    [] t = "Re" -> "re"
    [] t = "Senior" -> "senior"
    [] t = "[a-zA-Z]+" -> "[a-za-z]+"
    [] t = "[a-zA-Z]*" -> "[a-za-z]*"
    [] OTHER -> t

LowerText(text) == [i \in DOMAIN text |-> lower(text[i])]

Has(text, t) == \E i \in DOMAIN text : text[i] = t

\* The least element of a non-empty set of numbers.
Least(S) == CHOOSE x \in S : \A y \in S : x <= y

\* The positions at which the phrase starts in the text.
Occurrences(text, phrase) ==
  {o \in 1..(Len(text) - Len(phrase) + 1) :
     \A i \in 1..Len(phrase) : text[o + i - 1] = phrase[i]}

\* The tokens from position i up to the first token that satisfies Stop (or
\* the end of the text).  Stop is one of Quote, Comma, "non-word".
RunFrom(text, i, stop) ==
  LET Stops(t) == IF stop = "non-word" THEN ~IsWord(t) ELSE t = stop
      ends == {e \in i..Len(text) : Stops(text[e])}
  IN IF i > Len(text) THEN <<>>
     ELSE SubSeq(text, i, IF ends = {} THEN Len(text) ELSE Least(ends) - 1)

\* re.search(phrase + r' ["\']([^"\']+)["\']', prompt).group(1), or <<>>
\* when there is no match: the tokens between the quote that follows the
\* phrase and the next quote.
QuotedAfter(prompt, phrase) ==
  LET n == Len(phrase)
      starts == {o \in Occurrences(prompt, phrase) :
                   /\ o + n + 2 <= Len(prompt)
                   /\ prompt[o + n] = Quote
                   /\ prompt[o + n + 1] # Quote
                   /\ \E e \in (o + n + 2)..Len(prompt) : prompt[e] = Quote}
  IN IF starts = {} THEN <<>>
     ELSE RunFrom(prompt, Least(starts) + n + 1, Quote)

\* re.search(phrase + r' ([^,\s]+(?:\s+[^,\s]+)*)', prompt).group(1), or <<>>:
\* the tokens that follow the phrase, up to the next comma.
UnquotedAfter(prompt, phrase) ==
  LET n == Len(phrase)
      starts == {o \in Occurrences(prompt, phrase) :
                   o + n <= Len(prompt) /\ prompt[o + n] # Comma}
  IN IF starts = {} THEN <<>>
     ELSE RunFrom(prompt, Least(starts) + n, Comma)

\* re.sub(r"'([^']+)'", r'[a-zA-Z]+', text): every quoted, non-empty run of
\* tokens becomes the letter-run pattern.
RECURSIVE SubPlaceholders(_)
SubPlaceholders(text) ==
  IF text = <<>> THEN <<>>
  ELSE IF /\ text[1] = Quote
          /\ Len(text) >= 3
          /\ text[2] # Quote
          /\ \E e \in 3..Len(text) : text[e] = Quote
    THEN LET e == Least({k \in 3..Len(text) : text[k] = Quote})
         IN <<LetterRun>> \o SubPlaceholders(SubSeq(text, e + 1, Len(text)))
  ELSE <<text[1]>> \o SubPlaceholders(Tail(text))

\* re.sub(r'\s+', r'\\s+', text): the pattern, its tokens joined by \s+.
SubWhitespace(text) ==
  [i \in 1..(IF text = <<>> THEN 0 ELSE 2 * Len(text) - 1) |->
     IF i % 2 = 1 THEN text[(i + 1) \div 2] ELSE Whitespace]

\* re.sub(r'\\s+city', r'\\s+[a-zA-Z]*', text).  The regex reads: a
\* backslash, the letter s once or more, "city"; so it rewrites "city" where
\* the text before it is a backslash and letters s, which is not what the
\* step before has written there (a backslash, one s and a plus sign).
SubCity(text) ==
  [i \in DOMAIN text |->
     IF i > 1 /\ text[i] = "city" /\ text[i - 1] \in {"\\s", "\\ss"}
       THEN OptionalWord ELSE text[i]]

\* A subject branch that tries both tests, "if" where the source has "elif".
subject_conditions_both(prompt) ==
  IF ~Has(prompt, "subject") THEN <<>>
  ELSE (IF \/ Occurrences(prompt, <<"subject", "exists">>) # {}
           \/ Occurrences(prompt, <<"subject", "not", "empty">>) # {}
          THEN << [type |-> "subject_exists", value |-> <<>>] >> ELSE <<>>)
       \o (IF QuotedAfter(prompt, <<"subject", "contains">>) # <<>>
             THEN << [type |-> "subject_contains",
                      value |-> QuotedAfter(prompt, <<"subject", "contains">>)] >>
             ELSE <<>>)

\* EmailAnalyzer._parse_conditions(prompt), the prompt already lowercased,
\* branch by branch.  The value of an "exists" condition (True in the source)
\* is <<>> here.
subject_conditions(prompt) ==
  IF ~Has(prompt, "subject") THEN <<>>
  ELSE IF \/ Occurrences(prompt, <<"subject", "exists">>) # {}
          \/ Occurrences(prompt, <<"subject", "not", "empty">>) # {}
    THEN << [type |-> "subject_exists", value |-> <<>>] >>
  ELSE IF /\ Occurrences(prompt, <<"subject", "contains">>) # {}
          /\ QuotedAfter(prompt, <<"subject", "contains">>) # <<>>
    THEN << [type |-> "subject_contains",
             value |-> QuotedAfter(prompt, <<"subject", "contains">>)] >>
  ELSE <<>>

body_conditions(prompt) ==
  LET captured ==
        IF QuotedAfter(prompt, <<"body", "contains">>) # <<>>
          THEN QuotedAfter(prompt, <<"body", "contains">>)
          ELSE UnquotedAfter(prompt, <<"body", "contains">>)
  IN IF ~Has(prompt, "body") THEN <<>>
     ELSE IF \/ Occurrences(prompt, <<"body", "exists">>) # {}
             \/ Occurrences(prompt, <<"body", "not", "empty">>) # {}
       THEN << [type |-> "body_exists", value |-> <<>>] >>
     ELSE IF Occurrences(prompt, <<"body", "contains">>) # {} /\ captured # <<>>
       THEN << [type |-> "body_contains",
                value |-> SubCity(SubWhitespace(SubPlaceholders(captured)))] >>
     ELSE <<>>

pdf_conditions(prompt) ==
  IF /\ (Has(prompt, "pdf") \/ Has(prompt, "attachment"))
     /\ \/ Occurrences(prompt, <<"pdf", "exists">>) # {}
        \/ Occurrences(prompt, <<"has", "pdf">>) # {}
        \/ Occurrences(prompt, <<"has", "attachment">>) # {}
    THEN << [type |-> "pdf_exists", value |-> <<>>] >>
    ELSE <<>>

skill_conditions(prompt) ==
  LET skills == {o \in Occurrences(prompt, <<"skilled", "in">>) :
                   o + 2 <= Len(prompt) /\ IsWord(prompt[o + 2])}
  IN IF skills # {}
       THEN << [type |-> "resume_skill", value |-> <<prompt[Least(skills) + 2]>>] >>
       ELSE <<>>

parse_conditions(prompt) ==
  subject_conditions(prompt) \o body_conditions(prompt)
    \o pdf_conditions(prompt) \o skill_conditions(prompt)

\* The group of r'(\w+(?:\s+\w+)*)' after a lazy '.*?' that starts behind
\* position i: the first run of words after it, or <<>>.
WordRunAfter(text, i) ==
  LET words == {j \in (i + 1)..Len(text) : IsWord(text[j])}
  IN IF words = {} THEN <<>> ELSE RunFrom(text, Least(words), "non-word")

DefaultActions ==
  [pass_label |-> <<"To", "be", "Reviewed">>, fail_label |-> <<"To", "be", "Deleted">>]

\* EmailAnalyzer._parse_actions(prompt, result), the prompt already
\* lowercased: the actions map after it.
parse_actions(prompt, actions) ==
  IF Has(prompt, "label") /\ Has(prompt, "with")
    THEN LET l == Least(Occurrences(prompt, <<"label">>))
             withs == {w \in Occurrences(prompt, <<"with">>) : w > l}
             pass_match == IF withs = {} THEN <<>>
                           ELSE WordRunAfter(prompt, Least(withs))
             fail_match == IF ~Has(prompt, "else") THEN <<>>
                           ELSE WordRunAfter(prompt, Least(Occurrences(prompt, <<"else">>)))
         IN [pass_label |-> IF pass_match # <<>> THEN pass_match ELSE actions.pass_label,
             fail_label |-> IF fail_match # <<>> THEN fail_match ELSE actions.fail_label]
  ELSE IF Has(prompt, "mark")
    THEN LET m == Least(Occurrences(prompt, <<"mark">>))
             ases == {a \in Occurrences(prompt, <<"as">>) :
                        a > m /\ a < Len(prompt) /\ prompt[a + 1] # Comma}
             mark_label == IF ases = {} THEN <<>>
                           ELSE RunFrom(prompt, Least(ases) + 1, Comma)
         IN IF mark_label = <<>> THEN actions
            ELSE IF Has(LowerText(mark_label), "deleted")
              THEN [pass_label |-> DefaultActions.pass_label, fail_label |-> mark_label]
            ELSE [pass_label |-> mark_label, fail_label |-> DefaultActions.fail_label]
  ELSE actions

\* EmailAnalyzer.parse_prompt(prompt) on a text.
parse_prompt_text(prompt) ==
  LET prompt_lower == LowerText(prompt)
  IN [conditions |-> parse_conditions(prompt_lower),
      actions |-> parse_actions(prompt_lower, DefaultActions)]

\* re.search(pattern, body): the pattern's tokens, joined by \s+, are found in
\* the body; a letter-run pattern matches any word.
RegexSearch(pattern, body) ==
  LET elems == [i \in 1..((Len(pattern) + 1) \div 2) |-> pattern[2 * i - 1]]
      Matches(e, w) ==
        IF e \in {"[a-za-z]+", "[a-zA-Z]+"} THEN IsWord(w) ELSE e = w
  IN /\ \A i \in DOMAIN pattern : i % 2 = 0 => pattern[i] = Whitespace
     /\ \E o \in 0..(Len(body) - Len(elems)) :
          \A i \in DOMAIN elems : Matches(elems[i], body[o + i])

\* A word that is no regular expression: its parenthesis is not closed.
OpenParenWord == "(urgent"

\* re.search(pattern, body) does not raise re.error.
regex_compiles(pattern) == ~Has(pattern, OpenParenWord)

\* A body test without the handler for re.error: the error leaves it, and
\* _check_single_condition turns it into False.
check_body_contains_no_fallback(m, text) ==
  regex_compiles(LowerText(text)) /\ RegexSearch(LowerText(text), LowerText(m.body))

\* A subject test that compares the subject as it is written.
check_subject_contains_exact(m, text) == IsSubstring(LowerText(text), m.subject)

check_subject_exists(m) == Len(m.subject) > 0
check_subject_contains(m, text) == IsSubstring(LowerText(text), LowerText(m.subject))
check_body_exists(m) == Len(m.body) > 0
check_body_contains(m, text) ==
  IF regex_compiles(LowerText(text))
    THEN RegexSearch(LowerText(text), LowerText(m.body))
    ELSE IsSubstring(LowerText(text), LowerText(m.body))
check_pdf_exists(m) == m.pdf
check_resume_skill(m, skill) == TRUE

\* text.lower() raises AttributeError when the value of a "contains"
\* condition is no string (True, written <<>> as for the "exists" conditions).
predicate_raises(m, condition) ==
  condition.type \in {"subject_contains", "body_contains"} /\ condition.value = <<>>

\* A dispatch that takes a condition of an unknown type as met.
check_condition_lenient(m, condition) ==
  IF predicate_raises(m, condition) THEN FALSE ELSE
  CASE condition.type = "subject_exists" -> check_subject_exists(m)
    [] condition.type = "subject_contains" -> check_subject_contains(m, condition.value)
    [] condition.type = "body_exists" -> check_body_exists(m)
    [] condition.type = "body_contains" -> check_body_contains(m, condition.value)
    [] condition.type = "pdf_exists" -> check_pdf_exists(m)
    [] condition.type = "resume_skill" -> check_resume_skill(m, condition.value)
    [] OTHER -> TRUE

\* EmailAnalyzer._check_single_condition and check_email_conditions on a
\* message given by its subject and body text and its PDF attachment.  An
\* exception of a predicate is caught and gives False.
check_condition_text(m, condition) ==
  IF predicate_raises(m, condition) THEN FALSE ELSE
  CASE condition.type = "subject_exists" -> check_subject_exists(m)
    [] condition.type = "subject_contains" -> check_subject_contains(m, condition.value)
    [] condition.type = "body_exists" -> check_body_exists(m)
    [] condition.type = "body_contains" -> check_body_contains(m, condition.value)
    [] condition.type = "pdf_exists" -> check_pdf_exists(m)
    [] condition.type = "resume_skill" -> check_resume_skill(m, condition.value)
    [] OTHER -> FALSE

check_conditions_text(m, conditions) ==
  \A k \in DOMAIN conditions : check_condition_text(m, conditions[k])

\* A condition without a 'type' key: condition['type'] raises KeyError
\* before _check_single_condition enters its try block.
MissingType == "<missing>"
single_condition_raises(condition) == condition.type = MissingType

\* A handler of check_email_conditions that logs and re-raises.
conditions_reraise == [meets |-> FALSE, raised |-> TRUE]

\* check_email_conditions' handler, "except Exception: log; return False".
conditions_except == [meets |-> FALSE, raised |-> FALSE]

\* check_email_conditions(email_data, conditions): the verdict, the number
\* of conditions its loop has evaluated when it returns (all of them, or
\* those up to the first that is not met or raises) and whether an
\* exception leaves it.
check_email_conditions_text(m, conditions) ==
  LET stops == {k \in DOMAIN conditions :
                  \/ single_condition_raises(conditions[k])
                  \/ ~check_condition_text(m, conditions[k])}
  IN IF stops = {} THEN [meets |-> TRUE, evaluated |-> Len(conditions), raised |-> FALSE]
     ELSE IF single_condition_raises(conditions[Least(stops)])
       THEN [meets |-> conditions_except.meets, evaluated |-> Least(stops),
             raised |-> conditions_except.raised]
     ELSE [meets |-> FALSE, evaluated |-> Least(stops), raised |-> FALSE]

\* ------------------------------------------------------------ the Driver
\* messages[:MAX_EMAILS_TO_PROCESS] when the cap is set and exceeded.
ApplyCap(msgs, cap) == IF cap # 0 /\ Len(msgs) > cap THEN Prefix(msgs, cap) ELSE msgs

\* A scan method without the check for an empty rule list.
NeverNoRules(rs) == FALSE

\* "if not rules": the run aborts when rule production gave no rule.
NoRules(rs) == rs = <<>>

\* An outer handler that logs and re-raises.
scan_reraise == [result |-> NoResult, raised |-> TRUE]

\* A loop handler that gives the run up: the exception goes to the outer handler.
message_except_aborts == FALSE

\* The scan methods' outer handler, "except Exception: log; return zeros":
\* the summary returned and whether the exception leaves the method.
scan_except == [result |-> ZeroResult, raised |-> FALSE]

\* The loops' handler, "except Exception: log; continue": whether the loop
\* goes on to the next message.
message_except_continues == TRUE

Blank(n) == [i \in 1..n |-> 0]

\* A main() that leaves the parsing of the prompt to the scan method.
main_never_parses(p) == 0

\* main()'s own calls of the rule parser before it calls the scan method:
\* the deterministic branch parses the prompt to print it (line 346).
main_parse_calls(p) == IF p = "prompt" THEN 1 ELSE 0

\* The seconds a pass of the loop sleeps after its message: time.sleep(4) is
\* the last statement of the Gemini loop's try block, so a pass that ends in
\* the handler does not reach it; the other loops do not sleep.
loop_sleep(p, exc) == IF p = "gemini" /\ ~exc THEN inter_call_delay ELSE 0

\* A scan method returns the summary r (or an exception leaves it), and the
\* program ends: main prints the results, or the exception it caught.
Return(r, exc) ==
  /\ pc' = "exit"
  /\ result' = r
  /\ raised' = exc
  /\ report' = IF caller # "main" THEN report
               ELSE report \cup {IF exc THEN "An error occurred" ELSE "SCANNING RESULTS"}

\* The program goes on to position p.
Goto(p) ==
  /\ pc' = p
  /\ UNCHANGED << result, raised, report >>

\* main(): the prompt is read; an empty one ends the program.  A direct
\* caller constructs the scanner without that check.
Start ==
  /\ pc = "main"
  /\ \E empty \in BOOLEAN :
       IF caller = "main" /\ empty
         THEN /\ report' = report \cup {"Prompt cannot be empty!"}
              /\ pc' = "exit"
         ELSE /\ report' = report
              /\ pc' = "construct"
  /\ UNCHANGED << unitVars, caller, config, service, pipeline, ruleVars, loopVars, mailVars,
                  result, raised >>

\* GmailResumeScanner(): GmailService() runs setup_gmail_api.  An exception
\* of the setup is logged, re-raised and, in main, caught and printed.
Construct ==
  /\ pc = "construct"
  /\ \E env \in SetupEnvs :
       LET out == setup_gmail_api(env) IN
       IF out = "raises"
         THEN /\ service' = "none"
              /\ report' = report \cup {"Failed to setup Gmail API"}
                             \cup (IF caller = "main" THEN {"An error occurred"} ELSE {})
              /\ pc' = "exit"
         ELSE /\ service' = out
              /\ report' = IF out = "none"
                             THEN report \cup {"credentials.json not found"}
                             ELSE report
              /\ pc' = "check"
  /\ UNCHANGED << unitVars, caller, config, pipeline, ruleVars, loopVars, mailVars, result, raised >>

\* main(): is_service_available(), then the choice of the pipeline.
CheckAvailable ==
  /\ pc = "check"
  /\ caller = "main"
  /\ IF ~is_service_available(service)
       THEN /\ report' = report \cup {"Failed to setup Gmail API"}
            /\ pc' = "exit"
            /\ UNCHANGED << pipeline, parser_calls >>
       ELSE /\ report' = report
            /\ pipeline' = IF config.gemini THEN "gemini"
                           ELSE IF config.openai THEN "openai" ELSE "prompt"
            /\ parser_calls' = parser_calls + main_parse_calls(pipeline')
            /\ pc' = "scan"
  /\ UNCHANGED << unitVars, caller, config, service, rules, parsed, target_id, ruleCalls,
                  sleeps, loopVars, mailVars, result, raised >>

\* A direct caller calls one of the four scan methods.
DirectCall ==
  /\ pc = "check"
  /\ caller = "direct"
  /\ \E p \in {"gemini", "openai", "prompt", "keyword"} :
       /\ pipeline' = p
       /\ pc' = IF p = "keyword" THEN "list" ELSE "scan"
  /\ UNCHANGED << unitVars, caller, config, service, report, ruleVars, loopVars, mailVars,
                  result, raised >>

\* scan_resumes_with_gemini up to the message list: the analyzer check and
\* categorize_prompt; no rule ends the run.
GeminiRuleProduction ==
  /\ pc = "scan"
  /\ pipeline = "gemini"
  /\ IF ~config.gemini
       THEN /\ Return(ZeroResult, FALSE)
            /\ UNCHANGED << rules, ruleCalls, sleeps, parser_calls >>
       ELSE \E replies \in [1..max_retries -> PromptReplies] :
              LET out == categorize_prompt(replies) IN
              /\ parser_calls' = parser_calls + 1
              /\ ruleCalls' = out.calls
              /\ sleeps' = out.sleeps
              /\ rules' = out.rules
              /\ IF NoRules(out.rules) THEN Return(ZeroResult, FALSE) ELSE Goto("list")
  /\ UNCHANGED << unitVars, caller, config, service, pipeline, parsed, target_id, loopVars, mailVars >>

\* scan_resumes_with_openai up to the message list: the analyzer check and
\* categorize_prompt; no rule ends the run.
OpenAIRuleProduction ==
  /\ pc = "scan"
  /\ pipeline = "openai"
  /\ IF ~config.openai
       THEN /\ Return(ZeroResult, FALSE)
            /\ UNCHANGED << rules, ruleCalls, parser_calls >>
       ELSE \E reply \in PromptReplies :
              LET out == openai_categorize_prompt(reply) IN
              /\ parser_calls' = parser_calls + 1
              /\ ruleCalls' = out.calls
              /\ rules' = out.rules
              /\ IF NoRules(out.rules) THEN Return(ZeroResult, FALSE) ELSE Goto("list")
  /\ UNCHANGED << unitVars, caller, config, service, pipeline, parsed, target_id, sleeps,
                  loopVars, mailVars >>

\* scan_resumes_with_prompt up to the message list: parse_prompt.
ParsePrompt ==
  /\ pc = "scan"
  /\ pipeline = "prompt"
  /\ \E p \in SUBSET Triggers : parsed' = parse_prompt(p)
  /\ parser_calls' = parser_calls + 1
  /\ pc' = "list"
  /\ UNCHANGED << unitVars, caller, config, service, report, pipeline, rules, target_id,
                  ruleCalls, sleeps, loopVars, mailVars, result, raised >>

\* self.gmail_service.search_emails_with_pdf_attachments(PDF_SEARCH_QUERY):
\* GmailService defines no such method, so the attribute lookup raises
\* AttributeError before any request is made; the outer handler returns zeros.
SearchEmailsWithPdfAttachments ==
  /\ pc = "list"
  /\ Return(scan_except.result, scan_except.raised)
  /\ UNCHANGED << unitVars, caller, config, service, pipeline, ruleVars, loopVars, mailVars >>

\* The mailbox collaborator's listMessagesMatchingQuery(query), as the spec's
\* external interface gives it: the messages the query matches, or an
\* exception.  Followed by the scan methods' "if not messages" and cap.
ListMessagesMatchingQuery ==
  /\ pc = "list"
  /\ service = "ok"
  /\ listReqs' = listReqs + 1
  /\ \E lo \in {"ok", "error"} :
       LET found == [i \in 1..mailbox |-> i] IN
       IF lo = "error"
         THEN /\ Return(scan_except.result, scan_except.raised)
              /\ UNCHANGED << messages, applied, applyReqs >>
       ELSE IF found = <<>>
         THEN /\ Return(ZeroResult, FALSE)
              /\ UNCHANGED << messages, applied, applyReqs >>
       ELSE /\ messages' = ApplyCap(found, config.cap)
            /\ applied' = [i \in 1..mailbox |-> {}]
            /\ applyReqs' = Blank(mailbox)
            /\ Goto(IF pipeline \in {"gemini", "openai"} THEN "loop" ELSE "labels")
  /\ UNCHANGED << unitVars, caller, config, service, pipeline, ruleVars, idx, scanned_count,
                  label_counts, label, failed, email_calls, call_gaps, pause, seen,
                  mailbox, labelStore, createReqs >>

\* scan_resumes_with_prompt and scan_resumes before their loops: the labels
\* are created; a label id of None ends the run with zeros.
CreateLabels ==
  /\ pc = "labels"
  /\ \E lo1, co1, lo2, co2 \in Outcomes :
       LET first == create_label_if_not_exists(labelStore,
                      IF pipeline = "prompt" THEN parsed.actions.pass_label
                                             ELSE DELETE_LABEL_NAME, lo1, co1)
           second == create_label_if_not_exists(first.store,
                       parsed.actions.fail_label, lo2, co2)
           both == pipeline = "prompt" /\ ~first.raised
           last == IF both THEN second ELSE first
       IN /\ labelStore' = last.store
          /\ createReqs' = createReqs + first.creates + (IF both THEN second.creates ELSE 0)
          /\ IF first.raised \/ last.raised
               THEN /\ Return(scan_except.result, scan_except.raised)
                    /\ UNCHANGED target_id
             ELSE IF first.id = NoneId \/ last.id = NoneId
               THEN /\ Return(ZeroResult, FALSE)
                    /\ UNCHANGED target_id
             ELSE /\ target_id' = last.id
                  /\ Goto("loop")
  /\ UNCHANGED << unitVars, caller, config, service, pipeline, rules, parsed,
                  ruleCalls, sleeps, parser_calls, loopVars, mailbox, applied, listReqs,
                  applyReqs >>

\* What one pass of a loop leaves behind for message i: evaluation returned
\* v; the message counted as scanned or not; the label counted (NoLabel: no
\* label counted); an exception caught by the loop's handler or not.  After
\* the last message the scan method returns its counters.
LoopStep(i, v, scanned, counted, exc) ==
  /\ label' = v
  /\ scanned_count' = IF scanned THEN scanned_count + 1 ELSE scanned_count
  /\ label_counts' = IF counted # NoLabel
                       THEN [label_counts EXCEPT ![counted] = @ + 1]
                       ELSE label_counts
  /\ failed' = IF exc THEN failed \cup {i} ELSE failed
  /\ pause' = loop_sleep(pipeline, exc)
  /\ idx' = i
  /\ IF exc /\ ~message_except_continues
       THEN Return(scan_except.result, scan_except.raised)
     ELSE IF i = Len(messages)
       THEN Return([scanned |-> scanned_count', counts |-> label_counts'], FALSE)
     ELSE Goto("loop")
  /\ UNCHANGED messages

\* A label application that repeats a request that has failed.
ApplyLabelAgain(i, label_id, v, scanned) ==
  \E ao \in Outcomes :
    LET a == add_label_to_message(applied[i], label_id, ao) IN
    /\ applied' = [applied EXCEPT ![i] = a.labels]
    /\ applyReqs' = [applyReqs EXCEPT ![i] = @ + (IF ao = "ok" THEN 1 ELSE 2)]
    /\ LoopStep(i, v, scanned, IF a.raised THEN NoLabel ELSE v, a.raised)

\* The request add_label_to_message(message i, label_id) and what the loop
\* counts after it: the label v, unless an exception left the method.
ApplyLabel(i, label_id, v, scanned) ==
  \E ao \in Outcomes :
    LET a == add_label_to_message(applied[i], label_id, ao) IN
    /\ applied' = [applied EXCEPT ![i] = a.labels]
    /\ applyReqs' = [applyReqs EXCEPT ![i] = @ + 1]
    /\ LoopStep(i, v, scanned, IF a.raised THEN NoLabel ELSE v, a.raised)

\* The body of the model-assisted loops after evaluation returned v:
\* get-or-create the label, apply it, count it.
LabelMessage(i, v) ==
  IF ~Truthy(v)
    THEN /\ LoopStep(i, v, TRUE, NoLabel, FALSE)
         /\ UNCHANGED << labelStore, createReqs, applied, applyReqs >>
    ELSE \E lo, co \in Outcomes :
           LET c == create_label_if_not_exists(labelStore, v, lo, co) IN
           /\ labelStore' = c.store
           /\ createReqs' = createReqs + c.creates
           /\ IF c.raised
                THEN /\ LoopStep(i, v, TRUE, NoLabel, TRUE)
                     /\ UNCHANGED << applied, applyReqs >>
              ELSE IF c.id = NoneId
                THEN /\ LoopStep(i, v, TRUE, NoLabel, FALSE)
                     /\ UNCHANGED << applied, applyReqs >>
              ELSE ApplyLabel(i, c.id, v, TRUE)

\* One pass of scan_resumes_with_gemini's loop.  categorize_email makes up to
\* three model calls: `limited` of them end in a rate-limit error.
GeminiMessage ==
  /\ pc = "loop"
  /\ pipeline = "gemini"
  /\ idx < Len(messages)
  /\ \E limited \in 0..(email_max_retries - 1), last \in EmailReplies :
       LET replies == [k \in 1..email_max_retries |->
                         IF k <= limited
                           THEN [type |-> "error", err |-> [has429 |-> TRUE, quota |-> FALSE]]
                           ELSE last]
           out == categorize_email(replies)
       IN /\ LabelMessage(idx + 1, out.label)
          /\ email_calls' = out.calls
          /\ call_gaps' = (IF idx = 0 THEN <<>> ELSE <<pause>>) \o out.sleeps
  /\ UNCHANGED << unitVars, caller, config, service, pipeline, ruleVars, mailbox, listReqs,
                  seen >>

\* One pass of scan_resumes_with_openai's loop.
OpenAIMessage ==
  /\ pc = "loop"
  /\ pipeline = "openai"
  /\ idx < Len(messages)
  /\ \E reply \in EmailReplies :
       LET out == openai_categorize_email(reply)
       IN /\ LabelMessage(idx + 1, out.label)
          /\ email_calls' = out.calls
          /\ call_gaps' = (IF idx = 0 THEN <<>> ELSE <<pause>>) \o out.sleeps
  /\ UNCHANGED << unitVars, caller, config, service, pipeline, ruleVars, mailbox, listReqs,
                  seen >>

\* One pass of scan_resumes_with_prompt's loop: the message is counted, and
\* labeled with the fail label when it meets the conditions.
PromptMessage ==
  /\ pc = "loop"
  /\ pipeline = "prompt"
  /\ idx < Len(messages)
  /\ \E m \in MsgKinds :
       /\ seen' = Seen(m, 0, FALSE, FALSE)
       /\ IF ~check_email_conditions(m, parsed.conditions)
            THEN /\ LoopStep(idx + 1, NoLabel, TRUE, NoLabel, FALSE)
                 /\ UNCHANGED << applied, applyReqs >>
            ELSE ApplyLabel(idx + 1, target_id, parsed.actions.fail_label, TRUE)
  /\ UNCHANGED << unitVars, caller, config, service, pipeline, ruleVars, mailbox,
                  labelStore, listReqs, createReqs, email_calls, call_gaps >>

\* config.PROCESS_ONLY_FIRST_PDF.
PROCESS_ONLY_FIRST_PDF == TRUE

\* A part loop that never breaks: it enters every .pdf part.
every_pdf_part(n) == n

\* How many of a message's n .pdf parts the part loop of scan_resumes
\* enters: "if PROCESS_ONLY_FIRST_PDF: break" ends it after the first.
pdf_parts_examined(n) == IF PROCESS_ONLY_FIRST_PDF /\ n > 0 THEN 1 ELSE n

\* One pass of scan_resumes' loop over a message with n .pdf parts,
\* PROCESS_ONLY_FIRST_PDF being set: the first .pdf part's attachment is
\* fetched (att: the outcome of the request, or "no_id" when the part has no
\* attachmentId), its text extracted (text: non-empty or not) and judged
\* (qualified).
KeywordMessage ==
  /\ pc = "loop"
  /\ pipeline = "keyword"
  /\ idx < Len(messages)
  /\ \E m \in MsgKinds, n \in 1..MaxPdfs :
       IF ~m.pdf
         THEN /\ seen' = Seen(m, pdf_parts_examined(0), FALSE, FALSE)
              /\ LoopStep(idx + 1, NoLabel, FALSE, NoLabel, FALSE)
              /\ UNCHANGED << applied, applyReqs >>
         ELSE \E att \in Outcomes \cup {"no_id"}, text, qualified \in BOOLEAN :
                LET pdf_text == att = "ok" /\ text IN
                /\ seen' = Seen(m, pdf_parts_examined(n), pdf_text, pdf_text /\ qualified)
                /\ IF att \in {"error", "no_id"}
                     THEN /\ LoopStep(idx + 1, NoLabel, FALSE, NoLabel, TRUE)
                          /\ UNCHANGED << applied, applyReqs >>
                   ELSE IF att = "http_error" \/ ~text
                     THEN /\ LoopStep(idx + 1, NoLabel, FALSE, NoLabel, FALSE)
                          /\ UNCHANGED << applied, applyReqs >>
                   ELSE IF qualified
                     THEN /\ LoopStep(idx + 1, NoLabel, TRUE, NoLabel, FALSE)
                          /\ UNCHANGED << applied, applyReqs >>
                   ELSE ApplyLabel(idx + 1, target_id, DELETE_LABEL_NAME, TRUE)
  /\ UNCHANGED << unitVars, caller, config, service, pipeline, ruleVars, mailbox,
                  labelStore, listReqs, createReqs, email_calls, call_gaps >>

\* The program as the source has it.
Next ==
  \/ Start
  \/ Construct
  \/ CheckAvailable
  \/ DirectCall
  \/ GeminiRuleProduction
  \/ OpenAIRuleProduction
  \/ ParsePrompt
  \/ SearchEmailsWithPdfAttachments

Spec == Init /\ [][Next]_vars

\* The program with a mailbox collaborator that provides the message list
\* of the spec's external interface.
NextMailbox ==
  \/ Next
  \/ ListMessagesMatchingQuery
  \/ CreateLabels
  \/ GeminiMessage
  \/ OpenAIMessage
  \/ PromptMessage
  \/ KeywordMessage

SpecMailbox == Init /\ [][NextMailbox]_vars

\* ------------------------------------------- functions called on their own
driverVars == << caller, config, service, report, pipeline, ruleVars, loopVars,
                 mailVars, result, raised >>

\* A client that holds the object and calls one of its functions.
Client ==
  /\ pc = "call"
  /\ caller = "direct"
  /\ config = [gemini |-> TRUE, openai |-> TRUE, cap |-> 0]
  /\ mailbox = 0
  /\ labelStore = <<>>
  /\ ret = NoRet
  /\ Idle

\* GeminiAnalyzer.categorize_prompt, for every outcome of its model calls.
InitRules ==
  /\ Client
  /\ args \in [1..max_retries -> PromptReplies]

CategorizePrompt ==
  /\ pc = "call"
  /\ ret' = categorize_prompt(args)
  /\ pc' = "returned"
  /\ UNCHANGED << args, driverVars >>

SpecRules == InitRules /\ [][CategorizePrompt]_vars

\* GeminiAnalyzer.categorize_email, for every rule list, message and answer
\* of the model (the same on each attempt).
UnitRuleLists == SeqsUpTo({RuleNoSubjectNoBody, RuleSubjectAndPdf}, MaxRules)

InitEval ==
  /\ Client
  /\ args \in [rules : UnitRuleLists, m : MsgKinds, reply : EmailReplies]

CategorizeEmail ==
  /\ pc = "call"
  /\ ret' = categorize_email([k \in 1..email_max_retries |-> args.reply]).label
  /\ pc' = "returned"
  /\ UNCHANGED << args, driverVars >>

SpecEval == InitEval /\ [][CategorizeEmail]_vars

\* GmailService.create_label_if_not_exists called twice in sequence with
\* names equal ignoring case, for every outcome of the mailbox's requests.
UnitStores == {st \in SeqsUpTo(Names, MaxStore) :
                 \A i, j \in DOMAIN st : Lower(st[i]) = Lower(st[j]) => i = j}

InitLabel ==
  /\ Client
  /\ args \in {a \in [store : UnitStores, first : Names, second : Names,
                       lo1 : Outcomes, co1 : Outcomes, lo2 : Outcomes, co2 : Outcomes] :
                 Lower(a.first) = Lower(a.second)}

CreateLabelTwice ==
  /\ pc = "call"
  /\ LET r1 == create_label_if_not_exists(args.store, args.first, args.lo1, args.co1)
         r2 == create_label_if_not_exists(r1.store, args.second, args.lo2, args.co2)
     IN ret' = << r1, r2 >>
  /\ pc' = "returned"
  /\ UNCHANGED << args, driverVars >>

SpecLabel == InitLabel /\ [][CreateLabelTwice]_vars

\* EmailAnalyzer.parse_prompt and check_email_conditions, on prompts put
\* together from phrases and on messages given by their text.
SubjectPhrases ==
  { <<>>,
    <<"subject", "exists">>,
    <<"subject", "contains", Quote, "Java", "Developer", Quote>>,
    <<"subject", "exists", Comma, "subject", "contains", Quote, "Java", "Developer", Quote>>,
    <<"no", "subject">> }
BodyPhrases ==
  { <<>>,
    <<"body", "exists">>,
    <<"body", "contains", Quote, "I", "am", "XYZ", "from", "ABC", "city", Quote>>,
    <<"body", "contains", "I", "am", Quote, "XYZ", Quote, "from", Quote, "ABC", Quote, "city">> }
PdfPhrases ==
  { <<>>, <<"has", "pdf">>, <<"has", "pdf", Comma, "has", "attachment">> }
SkillPhrases ==
  { <<>>, <<"skilled", "in", "Java">> }
ActionPhrases ==
  { <<>>,
    <<"label", "with", Quote, "To", "be", "Reviewed", Quote, "else", Quote, "To", "be", "Deleted", Quote>>,
    <<"Label", "with", "Keep", "else", "Trash">>,
    <<"mark", "as", "Important">>,
    <<"Mark", "as", "To", "be", "Deleted">> }

\* Phrases joined by commas.
Then(a, b) == IF a = <<>> THEN b ELSE IF b = <<>> THEN a ELSE a \o <<Comma>> \o b

PromptNoSubjectNoBody ==
  <<"Mark", "emails", "with", "no", "subject", "and", "no", "body", "as", "To", "be", "Deleted">>
PromptBodyPlaceholders ==
  <<"body", "contains", Quote, "I", "am", "XYZ", "from", "ABC", "city", Quote>>
PromptSubjectContains ==
  <<"subject", "contains", Quote, "Java", "Developer", Quote>>

Prompts ==
  { Then(s, Then(b, Then(p, Then(k, a)))) :
      s \in SubjectPhrases, b \in BodyPhrases, p \in PdfPhrases,
      k \in SkillPhrases, a \in ActionPhrases }
  \cup {PromptNoSubjectNoBody}

TextMessages ==
  [subject : { <<>>, <<"Java", "Developer", "Needed">>, <<"Python", "Developer">> },
   body : { <<>>,
            <<"I", "am", "John", "and", "I", "am", "from", "Chicago">>,
            <<"I", "am", "John", "from", "Chicago", "city">>,
            <<"I", "am", "XYZ", "from", "ABC", "city">> },
   pdf : BOOLEAN]

InitParse ==
  /\ Client
  /\ args \in [prompt : Prompts, m : TextMessages]

ParseAndCheck ==
  /\ pc = "call"
  /\ LET parsed_prompt == parse_prompt_text(args.prompt)
     IN ret' = [parsed |-> parsed_prompt,
                meets |-> check_conditions_text(args.m, parsed_prompt.conditions)]
  /\ pc' = "returned"
  /\ UNCHANGED << args, driverVars >>

SpecParse == InitParse /\ [][ParseAndCheck]_vars

\* EmailAnalyzer.check_email_conditions on condition lists that no prompt
\* gives: unknown types, values that are no string or no regular expression.
CheckConditions ==
  [type : {"subject_exists", "body_exists", "pdf_exists", "unknown", MissingType},
   value : {<<>>}]
    \cup [type : {"resume_skill"}, value : {<<"python">>}]
    \cup [type : {"subject_contains", "body_contains"},
          value : {<<>>, <<"developer">>, <<OpenParenWord>>,
                   <<OpenParenWord, Whitespace, "now">>}]

CheckMessages ==
  [subject : {<<>>, <<"Java", "Developer">>, <<"Re", OpenParenWord>>},
   body : {<<>>, <<OpenParenWord, "now">>, <<"Senior", "Developer">>},
   pdf : BOOLEAN]

InitCheck ==
  /\ Client
  /\ args \in [m : CheckMessages, conditions : SeqsUpTo(CheckConditions, MaxConds)]

CheckEmailConditions ==
  /\ pc = "call"
  /\ ret' = check_email_conditions_text(args.m, args.conditions)
  /\ pc' = "returned"
  /\ UNCHANGED << args, driverVars >>

SpecCheck == InitCheck /\ [][CheckEmailConditions]_vars

\* config.INDUSTRY_KEYWORDS.
INDUSTRY_KEYWORDS ==
  [java |-> <<"java", "spring", "hibernate", "maven", "gradle", "junit", "jvm">>,
   python |-> <<"python", "django", "flask", "numpy", "pandas", "scikit-learn", "pip">>,
   javascript |-> <<"javascript", "node.js", "react", "angular", "vue", "typescript", "npm">>,
   frontend |-> <<"html", "css", "javascript", "react", "angular", "vue", "bootstrap">>,
   backend |-> <<"java", "python", "node.js", "php", "c#", "database", "api">>,
   devops |-> <<"docker", "kubernetes", "aws", "azure", "jenkins", "git", "ci/cd">>,
   data |-> <<"python", "sql", "pandas", "numpy", "machine learning", "data analysis">>,
   mobile |-> <<"android", "ios", "react native", "flutter", "swift", "kotlin">>]

Range(q) == {q[i] : i \in DOMAIN q}

\* The buckets of the mapping in the order the dictionary holds them.
RECURSIVE SetToSeq(_)
SetToSeq(S) ==
  IF S = {} THEN <<>>
  ELSE LET x == CHOOSE x \in S : TRUE IN <<x>> \o SetToSeq(S \ {x})

\* A result list without the removal of duplicates.
keep_duplicates(expanded_keywords) == expanded_keywords

\* list(set(expanded_keywords)): the elements once each, in an order the
\* set implementation chooses (no property here depends on it).
remove_duplicates(expanded_keywords) == SetToSeq(Range(expanded_keywords))

\* The loop of expand_keywords_with_industry_mappings: each keyword, then
\* the term list of every bucket that has it.
RECURSIVE extend_with_buckets(_, _, _)
extend_with_buckets(keyword, industry_keywords, buckets) ==
  IF buckets = <<>> THEN <<>>
  ELSE (IF keyword \in Range(industry_keywords[buckets[1]])
          THEN industry_keywords[buckets[1]] ELSE <<>>)
       \o extend_with_buckets(keyword, industry_keywords, Tail(buckets))

RECURSIVE expanded_list(_, _)
expanded_list(keywords, industry_keywords) ==
  IF keywords = <<>> THEN <<>>
  ELSE <<keywords[1]>>
       \o extend_with_buckets(keywords[1], industry_keywords,
                              SetToSeq(DOMAIN industry_keywords))
       \o expanded_list(Tail(keywords), industry_keywords)

expand_keywords_with_industry_mappings(keywords, industry_keywords) ==
  remove_duplicates(expanded_list(keywords, industry_keywords))

\* PDFProcessor.expand_keywords_with_industry_mappings on keyword lists, and
\* once more on its own result.
ExpandKeywords == {"java", "python", "react", "docker", "sql", "swift", "spring", "cobol"}

InitExpand ==
  /\ Client
  /\ args \in [keywords : SeqsUpTo(ExpandKeywords, MaxExpand)]

ExpandWithIndustryMap ==
  /\ pc = "call"
  /\ LET once == expand_keywords_with_industry_mappings(args.keywords, INDUSTRY_KEYWORDS)
     IN ret' = [expanded |-> once,
                again |-> expand_keywords_with_industry_mappings(once, INDUSTRY_KEYWORDS)]
  /\ pc' = "returned"
  /\ UNCHANGED << args, driverVars >>

SpecExpand == InitExpand /\ [][ExpandWithIndustryMap]_vars

\* ResumeAnalyzer.check_resume_qualification on every document and keyword list.
InitMatch ==
  /\ Client
  /\ args \in [pdf_text : Texts, keywords : SeqsUpTo(Words, MaxKeywords)]

CheckResumeQualification ==
  /\ pc = "call"
  /\ ret' = check_resume_qualification(args.pdf_text, args.keywords)
  /\ pc' = "returned"
  /\ UNCHANGED << args, driverVars >>

SpecMatch == InitMatch /\ [][CheckResumeQualification]_vars

\* GeminiAnalyzer.categorize_prompt, from the model's response text to the
\* returned rules.  A response is a sequence of tokens: the code-fence
\* markers (three backticks with the tag json, three backticks), the
\* brackets of a JSON array, a rule object and a word of prose.
FenceJson == "fence-json"
Fence == "fence"
ResponseTokens == {FenceJson, Fence, "[", "]", "rule", "text"}
Responses == SeqsUpTo(ResponseTokens, MaxTokens)

RuleObject == [kind |-> "object", items |-> <<>>]
Array(items) == [kind |-> "array", items |-> items]
NoValue == [kind |-> "none", items |-> <<>>]
ParseFail == [ok |-> FALSE, value |-> NoValue, next |-> 0]

\* json.loads(text): the value the text denotes, when the whole text is one
\* JSON value (a rule object, or an array of at most one value: the texts
\* hold no comma).
RECURSIVE parse_value(_, _)
parse_value(text, i) ==
  IF i > Len(text) THEN ParseFail
  ELSE IF text[i] = "rule" THEN [ok |-> TRUE, value |-> RuleObject, next |-> i + 1]
  ELSE IF text[i] # "[" \/ i + 1 > Len(text) THEN ParseFail
  ELSE IF text[i + 1] = "]" THEN [ok |-> TRUE, value |-> Array(<<>>), next |-> i + 2]
  ELSE LET v == parse_value(text, i + 1)
       IN IF v.ok /\ v.next <= Len(text) /\ text[v.next] = "]"
            THEN [ok |-> TRUE, value |-> Array(<<v.value>>), next |-> v.next + 1]
            ELSE ParseFail

json_loads(text) ==
  LET v == parse_value(text, 1)
  IN [ok |-> v.ok /\ v.next = Len(text) + 1,
      value |-> IF v.ok /\ v.next = Len(text) + 1 THEN v.value ELSE NoValue]

\* Lines 110-115: a leading json fence and a trailing fence are cut off.
clean_response(response) ==
  LET unfenced == IF response # <<>> /\ response[1] = FenceJson THEN Tail(response) ELSE response
  IN IF unfenced # <<>> /\ unfenced[Len(unfenced)] = Fence
       THEN SubSeq(unfenced, 1, Len(unfenced) - 1) ELSE unfenced

\* The match of the greedy bracket pattern of line 130 in the response: from
\* the first "[" that has a "]" behind it to the last "]" of the text; <<>>
\* when there is no match.
bracketed(response) ==
  LET opens == {a \in DOMAIN response :
                  response[a] = "[" /\ \E b \in (a + 1)..Len(response) : response[b] = "]"}
      closes == {b \in DOMAIN response : response[b] = "]"}
  IN IF opens = {} THEN <<>>
     ELSE SubSeq(response, Least(opens), CHOOSE b \in closes : \A c \in closes : c <= b)

\* Lines 108-140: the parsed response, else the parsed bracketed part, else [].
rules_of_response(response) ==
  LET direct == json_loads(clean_response(response))
      extracted == json_loads(bracketed(response))
  IN IF direct.ok THEN direct.value
     ELSE IF bracketed(response) # <<>> /\ extracted.ok THEN extracted.value
     ELSE Array(<<>>)

InitJson ==
  /\ Client
  /\ args \in [response : Responses]

RulesOfResponse ==
  /\ pc = "call"
  /\ ret' = [rules |-> rules_of_response(args.response)]
  /\ pc' = "returned"
  /\ UNCHANGED << args, driverVars >>

SpecJson == InitJson /\ [][RulesOfResponse]_vars

\* ------------------------------------------------------------ properties
\* C1: in a scanning run each message receives at most one label-apply
\* request, the per-label counts sum to at most the scanned count (in the
\* loop and in the returned summary), and a message for which evaluation
\* returned no label (None or "") receives no label-apply request.
C1_AtMostOneLabel ==
  /\ \A i \in DOMAIN applyReqs : applyReqs[i] <= 1
  /\ SumOver(label_counts, Names) <= scanned_count
  /\ result # NoResult => SumOver(result.counts, Names) <= result.scanned
  /\ (idx > 0 /\ label \in {NoLabel, ""}) => applyReqs[idx] = 0

\* A model-assisted run over two messages has ended: the first was labeled by
\* one request, the second matched no rule and was left alone.
C1_Witness ==
  /\ pc = "exit"
  /\ pipeline = "gemini"
  /\ idx = 2
  /\ applyReqs = <<1, 0>>
  /\ label = NoLabel
  /\ result.scanned = 2
  /\ SumOver(result.counts, Names) = 1

\* C3: when model-assisted rule production returns an empty rule list, the
\* scan method returns scanned count 0 and no label count, has issued no
\* message-list, label-create or label-apply request, has evaluated no
\* message, and raises nothing.
C3_NoRulesAborts ==
  (pipeline \in {"gemini", "openai"} /\ ruleCalls > 0 /\ rules = <<>>) =>
    /\ pc = "exit"
    /\ result = ZeroResult
    /\ ~raised
    /\ listReqs = 0
    /\ createReqs = 0
    /\ applyReqs = <<>>
    /\ idx = 0

\* Rule production used all three model calls and gave no rule; the run is over.
C3_Witness ==
  /\ pc = "exit"
  /\ pipeline = "gemini"
  /\ ruleCalls = max_retries
  /\ rules = <<>>
  /\ mailbox > 0
  /\ result = ZeroResult

\* C4: a message whose processing raises does not end the run.  A scan
\* method that has entered its loop ends only after the last message of the
\* fetched list, and returns the counters as they stand; the counters hold
\* every message labeled without an exception, the failed ones aside.
C4_FailureContinues ==
  /\ failed \subseteq 1..idx
  /\ idx <= Len(messages)
  /\ pc = "loop" => idx < Len(messages)
  /\ SumOver(label_counts, Names) =
       Cardinality({i \in 1..idx : applyReqs[i] = 1 /\ i \notin failed})
  /\ (pc = "exit" /\ idx > 0) =>
       /\ idx = Len(messages)
       /\ ~raised
       /\ result = [scanned |-> scanned_count, counts |-> label_counts]

\* The label request for the first of two messages raised; the second was
\* evaluated and labeled after it, and the summary holds its count.
C4_Witness ==
  /\ pc = "exit"
  /\ Len(messages) = 2
  /\ failed = {1}
  /\ applyReqs = <<1, 1>>
  /\ SumOver(result.counts, Names) = 1
  /\ result.scanned = 2

\* C5: a scan method that was called and has ended has returned a summary
\* (a scanned count >= 0 and label counts that do not exceed it); no
\* exception has left it, whatever the mailbox and the model did.
C5_AlwaysSummary ==
  (pc = "exit" /\ pipeline # "none") =>
    /\ ~raised
    /\ result # NoResult
    /\ result.scanned \in 0..Len(messages)
    /\ \A n \in Names : result.counts[n] \in 0..result.scanned

\* A run that went through the outer handler: the mailbox failed after rule
\* production succeeded, and the scan method returned zeros.
C5_Witness ==
  /\ pc = "exit"
  /\ pipeline = "openai"
  /\ rules # <<>>
  /\ listReqs = 1
  /\ messages = <<>>
  /\ mailbox > 0
  /\ result = ZeroResult
  /\ ~raised

\* C6: with a cap of N and more than N matching messages, a model-assisted
\* run that got its rules processes exactly N messages.
C6_CapProcessesExactlyN ==
  (pc = "exit" /\ pipeline = "gemini" /\ rules # <<>>
     /\ config.cap > 0 /\ mailbox > config.cap) =>
    /\ idx = config.cap
    /\ result.scanned = config.cap

\* C9: when main finds the mailbox collaborator unavailable (setup raised, or
\* it left no service), no scan method is called: no rule production, no
\* message-list, label-create or label-apply request is made, and the
\* program ends having reported the failure.
C9_UnavailableCannotStart ==
  (caller = "main" /\ service = "none") =>
    /\ pipeline = "none"
    /\ ruleCalls = 0
    /\ listReqs = 0
    /\ createReqs = 0
    /\ applyReqs = <<>>
    /\ result = NoResult
    /\ pc \in {"check", "exit"}
    /\ pc = "exit" => "Failed to setup Gmail API" \in report

\* credentials.json was missing: the service is None, main has said so and ended.
C9_Witness ==
  /\ caller = "main"
  /\ pc = "exit"
  /\ service = "none"
  /\ "credentials.json not found" \in report
  /\ "Failed to setup Gmail API" \in report
  /\ "An error occurred" \notin report

\* C2: the label categorize_email returns for a message is the label of a
\* rule of the list whose every present condition group holds of the message,
\* and no earlier rule of the list matches the message.
C2_FirstMatchingRule ==
  (pc = "returned" /\ ret # NoLabel) =>
    \E k \in DOMAIN args.rules :
      /\ args.rules[k].Label = ret
      /\ evaluate(args.m, args.rules[k])
      /\ \A j \in 1..(k - 1) : ~evaluate(args.m, args.rules[j])

\* C7 as stated: two calls in sequence with names equal ignoring case return
\* the same identifier and issue at most one create request between them,
\* none when a label of that name exists.
C7_SameIdOneCreate ==
  pc = "returned" =>
    /\ ret[1].id = ret[2].id
    /\ ret[1].creates + ret[2].creates <= 1
    /\ (\E i \in DOMAIN args.store : Lower(args.store[i]) = Lower(args.first)) =>
         ret[1].creates + ret[2].creates = 0

\* C7, amended: the two calls never return two different identifiers; once
\* the first has returned one, the second issues no create request; when no
\* request fails both return the same identifier after at most one create
\* request; none is issued when a label of that name exists; and the mailbox
\* never ends with two labels equal ignoring case.
C7_IdempotentUnlessFailed ==
  pc = "returned" =>
    /\ (ret[1].id # NoneId /\ ret[2].id # NoneId) => ret[1].id = ret[2].id
    /\ ret[1].id # NoneId => ret[2].creates = 0
    /\ ({args.lo1, args.co1, args.lo2, args.co2} = {"ok"}) =>
         /\ ret[1].id # NoneId
         /\ ret[1].id = ret[2].id
         /\ ret[1].creates + ret[2].creates <= 1
    /\ (\E i \in DOMAIN args.store : Lower(args.store[i]) = Lower(args.first)) =>
         ret[1].creates + ret[2].creates = 0
    /\ \A i, j \in DOMAIN ret[2].store :
         Lower(ret[2].store[i]) = Lower(ret[2].store[j]) => i = j

\* The label was created by the first call and found, under a name that
\* differs by case, by the second.
C7_Witness ==
  /\ pc = "returned"
  /\ args.store = <<>>
  /\ args.first # args.second
  /\ ret[1].creates = 1
  /\ ret[2].creates = 0
  /\ ret[1].id = 1
  /\ ret[2].id = 1

\* C8: categorize_prompt calls the model at most 3 times; every call but the
\* last ended in an error whose text holds "429" or "quota", and was followed
\* by a sleep of 2 s, then 4 s; a call that ends otherwise is the last one;
\* when the last call ends in an error the rule list returned is empty.
C8_RetryOnlyOnRateLimit ==
  pc = "returned" =>
    LET n == ret.calls IN
    /\ n \in 1..3
    /\ \A k \in 1..(n - 1) :
         args[k].type = "error" /\ (args[k].err.has429 \/ args[k].err.quota)
    /\ ret.sleeps = Prefix(<<2, 4>>, n - 1)
    /\ n < 3 => ~(args[n].type = "error" /\ (args[n].err.has429 \/ args[n].err.quota))
    /\ args[n].type = "error" => ret.rules = <<>>
    /\ args[n].type = "rules" => ret.rules = args[n].rules

\* Three calls met the quota error: two sleeps, then no rule.
C8_Witness ==
  /\ pc = "returned"
  /\ ret.calls = 3
  /\ ret.sleeps = <<2, 4>>
  /\ ret.rules = <<>>
  /\ \A k \in 1..3 : args[k].type = "error" /\ args[k].err.quota /\ ~args[k].err.has429

\* C10: the match percentage is a fraction between 0 and 1, the number of
\* keywords of the list that are substrings of the document over the length
\* of the list, and 0 for the empty list; the resume qualifies exactly when
\* the fraction is at least one half, so never with an empty list.
C10_MatchPercentage ==
  pc = "returned" =>
    LET K == args.keywords
        hits == Cardinality({i \in DOMAIN K : IsSubstring(K[i], args.pdf_text)})
        p == ret.match_percentage
    IN /\ p.den > 0
       /\ 0 <= p.num /\ p.num <= p.den
       /\ K = <<>> => p.num = 0 /\ ~ret.qualified
       /\ K # <<>> => p.num * Len(K) = hits * p.den
       /\ ret.qualified <=> (K # <<>> /\ 2 * hits >= Len(K))

\* A list of two equal keywords, found in the document: the fraction is 2/2.
C10_Witness ==
  /\ pc = "returned"
  /\ Len(args.keywords) = 2
  /\ args.keywords[1] = args.keywords[2]
  /\ ret.match_percentage = Ratio(2, 2)
  /\ ret.qualified

\* C11: the prompt "Mark emails with no subject and no body as To be
\* Deleted" gives the label "To be Deleted" to exactly the messages whose
\* subject and body are both empty: a message with subject text does not
\* meet the parsed conditions.
C11_NoSubjectNoBody ==
  (pc = "returned" /\ args.prompt = PromptNoSubjectNoBody) =>
    /\ ret.parsed.actions.fail_label = <<"To", "be", "Deleted">>
    /\ ret.meets <=> (args.m.subject = <<>> /\ args.m.body = <<>>)

\* C12: the prompt body contains 'I am XYZ from ABC city' parses to one body
\* pattern with letter-run wildcards for the placeholders, and the message
\* whose body is "I am John and I am from Chicago" meets it.
C12_PlaceholderPattern ==
  (pc = "returned" /\ args.prompt = PromptBodyPlaceholders) =>
    /\ Len(ret.parsed.conditions) = 1
    /\ ret.parsed.conditions[1].type = "body_contains"
    /\ Has(ret.parsed.conditions[1].value, LetterRun)
    /\ args.m.body = <<"I", "am", "John", "and", "I", "am", "from", "Chicago">>
         => ret.meets

\* C13: the prompt subject contains 'Java Developer' parses to the one
\* condition subject_contains "java developer"; the subject "Java Developer
\* Needed" meets it and "Python Developer" does not; and whatever the
\* prompt, a message meets a subject_contains condition only if its subject
\* holds the value, case ignored.
C13_SubjectContains ==
  pc = "returned" =>
    /\ args.prompt = PromptSubjectContains =>
         /\ ret.parsed.conditions =
              << [type |-> "subject_contains", value |-> <<"java", "developer">>] >>
         /\ args.m.subject = <<"Java", "Developer", "Needed">> => ret.meets
         /\ args.m.subject = <<"Python", "Developer">> => ~ret.meets
    /\ \A k \in DOMAIN ret.parsed.conditions :
         (ret.parsed.conditions[k].type = "subject_contains" /\ ret.meets) =>
           \E o \in 0..Len(args.m.subject) :
             \A i \in DOMAIN ret.parsed.conditions[k].value :
               /\ o + i <= Len(args.m.subject)
               /\ lower(args.m.subject[o + i]) = ret.parsed.conditions[k].value[i]

\* The subject "Java Developer Needed" met the condition parsed from the prompt.
C13_Witness ==
  /\ pc = "returned"
  /\ args.prompt = PromptSubjectContains
  /\ args.m.subject = <<"Java", "Developer", "Needed">>
  /\ ret.parsed.conditions[1].value = <<"java", "developer">>
  /\ ret.meets

\* C15: in a Gemini run, before every per-email model call but the run's
\* first, at least the inter-call delay has been slept since the per-email
\* model call before it.
C15_InterCallDelay ==
  pipeline = "gemini" =>
    \A k \in DOMAIN call_gaps : call_gaps[k] >= inter_call_delay

C17_MatchThenLabel ==
  [][idx' = idx + 1 =>
       LET id == FindLabel(labelStore', label') IN
       /\ label' \in {NoLabel, ""} =>
            UNCHANGED << labelStore, createReqs, applied, applyReqs >>
       /\ applyReqs' # applyReqs =>
            /\ id # NoneId
            /\ applyReqs' = [applyReqs EXCEPT ![idx'] = @ + 1]
            /\ applied' \in {applied, [applied EXCEPT ![idx'] = @ \cup {id}]}
       /\ applied' # applied => applyReqs' # applyReqs
       /\ labelStore' # labelStore => applyReqs'[idx'] = applyReqs[idx'] + 1
  ]_vars

\* A model-assisted run labeled its first message with a label it got or
\* created, and left its second message, which matched no rule, untouched.
C17_Witness ==
  /\ pipeline \in {"gemini", "openai"}
  /\ idx = 2
  /\ label \in {NoLabel, ""}
  /\ applyReqs = <<1, 0>>
  /\ applied[1] # {}
  /\ applied[1] \subseteq DOMAIN labelStore
  /\ applied[2] = {}

\* C18: a label of the actions map is a default or a text of the prompt, in
\* the letter case the prompt has it.
C18_LabelKeepsCase ==
  pc = "returned" =>
    /\ \/ ret.parsed.actions.pass_label = DefaultActions.pass_label
       \/ IsSubstring(ret.parsed.actions.pass_label, args.prompt)
    /\ \/ ret.parsed.actions.fail_label = DefaultActions.fail_label
       \/ IsSubstring(ret.parsed.actions.fail_label, args.prompt)

\* C19: parse_prompt returns a conditions list with at most one condition
\* of each category (subject, body, PDF, skill) and an actions map with a
\* pass label and a fail label, the defaults "To be Reviewed" and "To be
\* Deleted" when the prompt holds no label phrase.
C19_OneResultObject ==
  pc = "returned" =>
    LET conditions == ret.parsed.conditions
        actions == ret.parsed.actions
        Count(types) == Cardinality({k \in DOMAIN conditions : conditions[k].type \in types})
    IN /\ Count({"subject_exists", "subject_contains"}) <= 1
       /\ Count({"body_exists", "body_contains"}) <= 1
       /\ Count({"pdf_exists"}) <= 1
       /\ Count({"resume_skill"}) <= 1
       /\ Count({"subject_exists", "subject_contains", "body_exists", "body_contains",
                  "pdf_exists", "resume_skill"}) = Len(conditions)
       /\ DOMAIN actions = {"pass_label", "fail_label"}
       /\ actions.pass_label # <<>>
       /\ actions.fail_label # <<>>
       /\ (\A i \in DOMAIN args.prompt : args.prompt[i] \notin {"label", "Label", "mark", "Mark"})
            => actions = DefaultActions

\* A prompt with both subject phrases and a phrase of every other category:
\* four conditions, and labels taken from the prompt.
C19_Witness ==
  /\ pc = "returned"
  /\ Occurrences(args.prompt, <<"subject", "exists">>) # {}
  /\ Occurrences(args.prompt, <<"subject", "contains">>) # {}
  /\ Len(ret.parsed.conditions) = 4
  /\ ret.parsed.actions.pass_label # DefaultActions.pass_label
  /\ ret.parsed.actions.fail_label # DefaultActions.fail_label

\* C14: when the response does not parse as JSON (fence markers cut off) but
\* holds a valid bracketed array, the returned rules are the first such
\* array of the response; and a valid JSON text between a leading json fence
\* and a trailing fence is returned as parsed.
C14_RecoversArray ==
  pc = "returned" =>
    LET response == args.response
        arrays == {ab \in (DOMAIN response) \X (DOMAIN response) :
                     /\ ab[1] < ab[2]
                     /\ response[ab[1]] = "["
                     /\ json_loads(SubSeq(response, ab[1], ab[2])).ok}
        first == CHOOSE ab \in arrays : \A cd \in arrays : ab[1] <= cd[1]
        inner == SubSeq(response, 2, Len(response) - 1)
    IN /\ (~json_loads(clean_response(response)).ok /\ arrays # {})
            => ret.rules = json_loads(SubSeq(response, first[1], first[2])).value
       /\ (/\ Len(response) >= 3
           /\ response[1] = FenceJson
           /\ response[Len(response)] = Fence
           /\ json_loads(inner).ok)
            => ret.rules = json_loads(inner).value

\* C20 as stated: in a run that has requested the message list, the rule
\* parser has been asked exactly once; and from the list request on, the rule
\* list, the parsed conditions and that count do not change.
C20_ParserAskedOnce ==
  /\ []((pipeline \in {"gemini", "openai", "prompt"} /\ listReqs > 0) => parser_calls = 1)
  /\ [][(pc \in {"list", "labels", "loop"}) =>
          (rules' = rules /\ parsed' = parsed /\ parser_calls' = parser_calls)]_vars

\* C20, amended: the scan method asks the rule parser exactly once before it
\* requests the message list; main's deterministic branch has asked it once
\* more before calling the scan method, so that such a run asks twice; from
\* the list request on, the rule list, the parsed conditions and the count
\* do not change.
C20_ScanMethodAsksOnce ==
  /\ []((pipeline \in {"gemini", "openai", "prompt"} /\ listReqs > 0) =>
          parser_calls = IF caller = "main" /\ pipeline = "prompt" THEN 2 ELSE 1)
  /\ [][(pc \in {"list", "labels", "loop"}) =>
          (rules' = rules /\ parsed' = parsed /\ parser_calls' = parser_calls)]_vars

\* A deterministic run started by main has evaluated its two messages, the
\* parser having been asked twice.
C20_Witness ==
  /\ caller = "main"
  /\ pipeline = "prompt"
  /\ listReqs = 1
  /\ parser_calls = 2
  /\ idx = 2

\* C21: check_email_conditions returns true exactly when every condition of
\* the list has a recognized type and holds of the message; its loop stops
\* at the first condition that does not; a condition of an unrecognized
\* type, and a predicate that raises, count as false, and no exception
\* leaves the call.
C21_CheckAll ==
  pc = "returned" =>
    LET m == args.m
        Holds(c) ==
          \/ c.type = "subject_exists" /\ m.subject # <<>>
          \/ c.type = "subject_contains" /\ c.value # <<>>
               /\ IsSubstring(LowerText(c.value), LowerText(m.subject))
          \/ c.type = "body_exists" /\ m.body # <<>>
          \/ c.type = "body_contains" /\ c.value # <<>>
               /\ check_body_contains(m, c.value)
          \/ c.type = "pdf_exists" /\ m.pdf
          \/ c.type = "resume_skill"
        false == {k \in DOMAIN args.conditions : ~Holds(args.conditions[k])}
    IN /\ ret.meets <=> false = {}
       /\ ret.evaluated = IF false = {} THEN Len(args.conditions) ELSE Least(false)
       /\ ~ret.raised

\* A met condition followed by one of an unknown type: both evaluated, the
\* verdict false, nothing raised.
C21_Witness ==
  /\ pc = "returned"
  /\ Len(args.conditions) = 2
  /\ args.conditions[1].type = "subject_exists"
  /\ args.conditions[2].type = "unknown"
  /\ args.m.subject # <<>>
  /\ ret = [meets |-> FALSE, evaluated |-> 2, raised |-> FALSE]

\* C22: a body_contains condition whose value is no valid regular
\* expression is met exactly when the lowercased value is found in the
\* lowercased body as it is written, and evaluating it raises nothing.
C22_RegexFallback ==
  (/\ pc = "returned"
   /\ Len(args.conditions) = 1
   /\ args.conditions[1].type = "body_contains"
   /\ Has(args.conditions[1].value, OpenParenWord)) =>
    /\ ~ret.raised
    /\ ret.meets <=> \E o \in 0..Len(args.m.body) :
                       \A i \in DOMAIN args.conditions[1].value :
                         /\ o + i <= Len(args.m.body)
                         /\ lower(args.m.body[o + i]) = lower(args.conditions[1].value[i])

\* The value "(urgent" is found in the body "(urgent now".
C22_Witness ==
  /\ pc = "returned"
  /\ args.conditions = << [type |-> "body_contains", value |-> <<OpenParenWord>>] >>
  /\ args.m.body = <<OpenParenWord, "now">>
  /\ ret.meets
  /\ ~ret.raised

\* C23: the expanded list has no duplicate and holds exactly the input
\* keywords and, for each input keyword that is a term of a bucket, the terms
\* of that bucket: the terms of a bucket that only an added term belongs to
\* are not in it.
C23_ExpandOneLevel ==
  pc = "returned" =>
    LET input == {args.keywords[i] : i \in DOMAIN args.keywords}
        Terms(b) == {INDUSTRY_KEYWORDS[b][i] : i \in DOMAIN INDUSTRY_KEYWORDS[b]}
        hit == {b \in DOMAIN INDUSTRY_KEYWORDS : Terms(b) \cap input # {}}
    IN /\ \A i, j \in DOMAIN ret.expanded : i # j => ret.expanded[i] # ret.expanded[j]
       /\ {ret.expanded[i] : i \in DOMAIN ret.expanded} = input \cup UNION {Terms(b) : b \in hit}

\* "java" is expanded by the java and backend buckets; "python", which the
\* backend bucket added, is not expanded, and expanding the result again
\* adds "django" of the python bucket.
C23_Witness ==
  /\ pc = "returned"
  /\ args.keywords = <<"java">>
  /\ Len(ret.expanded) = 13
  /\ \E i \in DOMAIN ret.expanded : ret.expanded[i] = "python"
  /\ \A i \in DOMAIN ret.expanded : ret.expanded[i] # "django"
  /\ \E i \in DOMAIN ret.again : ret.again[i] = "django"

\* ------------------------------------------------------------------ C24
\* The Label Actions of the rule list produced for the run.
RunLabels == {rules[k].Label : k \in DOMAIN rules}

\* C24: in a model-assisted run, a pass of the loop that asks the mailbox to
\* create a label or to apply one to the message does so for an answer that
\* is the Label Action of some rule of the run's rule list; another answer
\* of the model causes neither request.
C24_OnlyRuleLabels ==
  [][(/\ pc = "loop"
      /\ pipeline \in {"gemini", "openai"}
      /\ (createReqs' > createReqs \/ applyReqs' # applyReqs))
       => label' \in RunLabels]_vars

\* ------------------------------------------------------------------ C25
\* C25: a model-assisted run with the mailbox available and at least one
\* rule fetches the messages matching the PDF query through the mailbox and
\* returns a scanned count equal to their number, or to the cap when a
\* smaller cap is configured.
C25_FetchesAndScansAll ==
  (/\ pc = "exit"
   /\ pipeline \in {"gemini", "openai"}
   /\ service = "ok"
   /\ ~NoRules(rules))
    => /\ listReqs > 0
       /\ result.scanned = Len(ApplyCap([i \in 1..mailbox |-> i], config.cap))

\* ------------------------------------------------------------------ C26
\* C26: in a model-assisted run the count of a label grows in a pass of the
\* loop exactly when the mailbox has put that label on the pass's message: a
\* label-apply request that failed at the mailbox increases no count, so the
\* reported count of every label is the number of successful applications.
C26_CountsSuccessfulApplies ==
  [][(/\ pc = "loop"
      /\ pipeline \in {"gemini", "openai"})
       => \A L \in Names :
            label_counts'[L] =
              label_counts[L] + (IF label' = L /\ applied'[idx'] # applied[idx']
                                   THEN 1 ELSE 0)]_vars

\* ------------------------------------------------------------------ C27
\* The deterministic run has created its labels and is in, or through, its loop.
PromptLoop == pipeline = "prompt" /\ target_id # NoneId

C28_NoConditionNoLabel ==
  (pipeline = "prompt" /\ parsed.conditions = <<>>)
    => \A i \in DOMAIN applyReqs : applyReqs[i] = 0

\* ------------------------------------------------------------------ C29
\* C29: in the keyword pipeline a pass of the loop enters at most one .pdf
\* part of its message, counts the message as scanned exactly when that
\* part gave a non-empty text, and asks for the delete label exactly when
\* the message was scanned and its text does not qualify; labeled count <=
\* scanned count <= number of fetched messages; a run that got no id for
\* the delete label returns zeros and has asked for no label on any message.
C29_KeywordPipeline ==
  /\ [](pipeline = "keyword" =>
          /\ seen.examined <= 1
          /\ label_counts[DELETE_LABEL_NAME] <= scanned_count
          /\ scanned_count <= Len(messages)
          /\ (pc = "exit" /\ messages # <<>> /\ target_id = NoneId) =>
               /\ result = ZeroResult
               /\ \A i \in DOMAIN applyReqs : applyReqs[i] = 0
               /\ \A i \in DOMAIN applied : applied[i] = {})
  /\ [][(pc = "loop" /\ pipeline = "keyword") =>
          /\ scanned_count' = scanned_count + (IF seen'.pdf_text THEN 1 ELSE 0)
          /\ applyReqs'[idx'] = (IF seen'.pdf_text /\ ~seen'.qualified THEN 1 ELSE 0)
          /\ seen'.pdf_text => seen'.examined = 1]_vars

\* A keyword run over two messages with two .pdf parts each: both scanned,
\* one of them not qualified and labeled for deletion.
C29_Witness ==
  /\ pipeline = "keyword"
  /\ pc = "exit"
  /\ result.scanned = 2
  /\ result.counts[DELETE_LABEL_NAME] = 1
  /\ seen.examined = 1
  /\ \E i \in DOMAIN applied : applied[i] = {target_id}

\* ------------------------------------------------------ EmailComponents
\* A decoded text is a sequence of tokens: words, the blank and an HTML tag.
Blank1 == " "
HtmlTag == "<b>"

\* The base64url data of a body, by the text it encodes; a body may hold no
\* 'data' key.
Encoded(text) == [has_data |-> TRUE, b64 |-> text]
NoData == [has_data |-> FALSE, b64 |-> <<>>]

\* base64.urlsafe_b64decode(body_data).decode('utf-8', errors='ignore')
urlsafe_b64decode(body) == body.b64

\* re.sub(r'<[^>]+>', '', html_content)
strip_tags(text) == SelectSeq(text, LAMBDA t : t # HtmlTag)

\* str.strip()
RECURSIVE lstrip(_)
lstrip(text) ==
  IF text # <<>> /\ Head(text) = Blank1 THEN lstrip(Tail(text)) ELSE text

RECURSIVE rstrip(_)
rstrip(text) ==
  IF text # <<>> /\ text[Len(text)] = Blank1
    THEN rstrip(SubSeq(text, 1, Len(text) - 1)) ELSE text

strip(text) == rstrip(lstrip(text))

\* str.lower() on the header names and file names of the model.
lower_name(n) ==
  CASE n = "SUBJECT" -> "subject"
    [] n = "Subject" -> "subject"
    [] n = "From" -> "from"
    [] n = "CV.PDF" -> "cv.pdf"
    [] OTHER -> n

\* filename.endswith('.pdf')
endswith_pdf(filename) == filename = "cv.pdf"

\* The parts of a Gmail message payload.
Part(mimeType, filename, body, parts) ==
  [mimeType |-> mimeType, filename |-> filename, body |-> body, parts |-> parts]

PlainPart == Part("text/plain", "", Encoded(<<"hello", Blank1>>), <<>>)
HtmlPart == Part("text/html", "", Encoded(<<HtmlTag, "hello", HtmlTag>>), <<>>)
EmptyPart == Part("text/plain", "", NoData, <<>>)
PdfPart == Part("application/pdf", "CV.PDF", NoData, <<>>)
AlternativePart == Part("multipart/alternative", "", NoData, <<PlainPart, HtmlPart>>)
MixedPart == Part("multipart/mixed", "", NoData, <<AlternativePart, PdfPart>>)

PartKinds == {PlainPart, HtmlPart, EmptyPart, PdfPart, AlternativePart, MixedPart}

\* A payload with a 'parts' key, or without one and with a body.
Payloads ==
  [has_parts : {TRUE}, parts : SeqsUpTo(PartKinds, MaxParts), body : {NoData}]
    \cup [has_parts : {FALSE}, parts : {<<>>},
          body : {NoData, Encoded(<<Blank1, "hello">>)}]

Header(name, value) == [name |-> name, value |-> value]
HeaderLists ==
  { <<>>,
    <<Header("Subject", <<Blank1, "Re", Blank1>>)>>,
    <<Header("From", <<"hello">>), Header("SUBJECT", <<"Re">>)>>,
    <<Header("Subject", <<Blank1>>), Header("subject", <<"Re">>)>> }

RawMessages == [headers : HeaderLists, payload : Payloads]

\* The text a text/plain or text/html part adds to the body; other parts add none.
text_of_part(part) ==
  CASE part.mimeType = "text/plain" ->
         IF part.body.has_data THEN urlsafe_b64decode(part.body) ELSE <<>>
    [] part.mimeType = "text/html" ->
         IF part.body.has_data THEN strip_tags(urlsafe_b64decode(part.body)) ELSE <<>>
    [] OTHER -> <<>>

\* The loop over payload['parts'] of EmailAnalyzer and OpenAIAnalyzer.
RECURSIVE text_of_parts(_)
text_of_parts(parts) ==
  IF parts = <<>> THEN <<>>
  ELSE text_of_part(Head(parts)) \o text_of_parts(Tail(parts))

\* GeminiAnalyzer._extract_body's extract_from_parts: it also descends into
\* the parts of a multipart/alternative part.
RECURSIVE extract_from_parts(_)
extract_from_parts(parts) ==
  IF parts = <<>> THEN <<>>
  ELSE (IF Head(parts).mimeType = "multipart/alternative"
          THEN extract_from_parts(Head(parts).parts)
          ELSE text_of_part(Head(parts)))
       \o extract_from_parts(Tail(parts))

\* The branch for a payload without 'parts'.
payload_body(payload) ==
  IF payload.body.has_data THEN urlsafe_b64decode(payload.body) ELSE <<>>

\* EmailAnalyzer._extract_email_body
extract_email_body(email_data) ==
  strip(IF email_data.payload.has_parts
          THEN text_of_parts(email_data.payload.parts)
          ELSE payload_body(email_data.payload))

\* GeminiAnalyzer._extract_body
gemini_extract_body(email_data) ==
  strip(IF email_data.payload.has_parts
          THEN extract_from_parts(email_data.payload.parts)
          ELSE payload_body(email_data.payload))

\* OpenAIAnalyzer._extract_body
openai_extract_body(email_data) ==
  strip(IF email_data.payload.has_parts
          THEN text_of_parts(email_data.payload.parts)
          ELSE payload_body(email_data.payload))

\* _extract_subject of GeminiAnalyzer and OpenAIAnalyzer: the stripped value
\* of the first header named subject, whatever its case.
RECURSIVE extract_subject(_)
extract_subject(headers) ==
  IF headers = <<>> THEN <<>>
  ELSE IF lower_name(Head(headers).name) = "subject" THEN strip(Head(headers).value)
  ELSE extract_subject(Tail(headers))

\* EmailAnalyzer._check_subject_exists: that value is not empty.
RECURSIVE subject_exists(_)
subject_exists(headers) ==
  IF headers = <<>> THEN FALSE
  ELSE IF lower_name(Head(headers).name) = "subject"
    THEN Len(strip(Head(headers).value)) > 0
  ELSE subject_exists(Tail(headers))

\* _has_pdf_attachment and EmailAnalyzer._check_pdf_exists: a top-level part
\* is a .pdf file.
has_pdf_attachment(email_data) ==
  \E k \in DOMAIN email_data.payload.parts :
    endswith_pdf(lower_name(email_data.payload.parts[k].filename))

\* The three evaluators on every raw message.
InitExtract ==
  /\ Client
  /\ args \in [email_data : RawMessages]

ExtractComponents ==
  /\ pc = "call"
  /\ ret' = [email |-> [subject |-> subject_exists(args.email_data.headers),
                        body |-> extract_email_body(args.email_data),
                        has_pdf |-> has_pdf_attachment(args.email_data)],
             gemini |-> [subject |-> extract_subject(args.email_data.headers),
                         body |-> gemini_extract_body(args.email_data),
                         has_pdf |-> has_pdf_attachment(args.email_data)],
             openai |-> [subject |-> extract_subject(args.email_data.headers),
                         body |-> openai_extract_body(args.email_data),
                         has_pdf |-> has_pdf_attachment(args.email_data)]]
  /\ pc' = "returned"
  /\ UNCHANGED << args, driverVars >>

SpecExtract == InitExtract /\ [][ExtractComponents]_vars

\* ------------------------------------------------------------------ C30
\* C30: EmailAnalyzer, GeminiAnalyzer and OpenAIAnalyzer derive the same
\* components from the same raw message, whatever its structure: the same
\* subject, the same body and the same hasPdf.
C30_SameComponents ==
  pc = "returned" =>
    /\ ret.email.body = ret.gemini.body
    /\ ret.gemini.body = ret.openai.body
    /\ ret.email.has_pdf = ret.gemini.has_pdf
    /\ ret.gemini.has_pdf = ret.openai.has_pdf
    /\ ret.gemini.subject = ret.openai.subject
    /\ ret.email.subject = (ret.gemini.subject # <<>>)

====
